---- MODULE Spec2Model ----
(***************************************************************************)
(* Release orchestration of the NodeTool repositories                      *)
(* (src/release/release.py): main, process_repo, wait_for_repos,           *)
(* check_workflow_completed, get_release_run, print_workflow_logs.         *)
(*                                                                         *)
(* Strings that the code slices (the version tag) are sequences of         *)
(* one-character strings; every subprocess (git, gh) is an input whose     *)
(* outcome is drawn where the code runs it.                                *)
(***************************************************************************)
EXTENDS Integers, Sequences, FiniteSets, TLC

(* ------------------------------------------------------------------ *)
(* Bounds of the model                                                 *)
(* ------------------------------------------------------------------ *)

\* how many entries of REPOS (in order, nodetool-core first) the model runs
NumRepos == 2

\* longest run list `gh run list` returns in the classification check
MaxRuns == 2

(* ------------------------------------------------------------------ *)
(* Program constants                                                   *)
(* ------------------------------------------------------------------ *)

MAX_WAIT == 1800

POLL_INTERVAL == 30

RELEASE_WORKFLOWS == {"Build and Publish Wheel", "Release"}

ALL_REPOS ==
    << "nodetool-core", "nodetool-apple", "nodetool-base", "nodetool-comfy",
       "nodetool-elevenlabs", "nodetool-fal", "nodetool-huggingface",
       "nodetool-lib-ml", "nodetool-mlx", "nodetool-lib-audio",
       "nodetool-replicate", "nodetool-whispercpp" >>

\* the list the orchestrator iterates: the first NumRepos entries of REPOS
REPOS == SubSeq(ALL_REPOS, 1, NumRepos)

CORE == "nodetool-core"

Range(s) == {s[i] : i \in 1..Len(s)}

RepoSet == Range(REPOS)

\* return values of check_workflow_completed
SUCCEEDED == 0

PENDING == 1

FAILED == 2

None == [none |-> TRUE]

(* ------------------------------------------------------------------ *)
(* Inputs: command line, version tags, answers, CI query outcomes      *)
(* ------------------------------------------------------------------ *)

\* version tags given on the command line, as character sequences
Tags == { <<"v", "1">>, <<"1", ".", "2">> }

\* a branch name that is no release tag
MainBranch == <<"m", "a", "i", "n">>

\* answers typed at the "Continue anyway? (y/n)" prompt
Responses == {"y", "Y", "yes", "n", ""}

\* str.lower() on the answers above
Lower(s) == IF s = "Y" THEN "y" ELSE s

\* --repo values: absent (None), a known repository, an unknown one
NoRepoArg == "<none>"

RepoArgs == {NoRepoArg, "not-a-repo"} \cup RepoSet

Conclusions == {"success", "failure", "cancelled", "timed_out"}

WorkflowNames == RELEASE_WORKFLOWS \cup {"CI"}

\* one entry of the JSON array printed by `gh run list`
Run(b, w, s, c, id) ==
    [headBranch |-> b, workflowName |-> w, status |-> s, conclusion |-> c,
     databaseId |-> id]

\* runs as GitHub reports them: a run that is not completed has no conclusion
RunsFor(tag) ==
    { Run(b, w, "completed", c, 101) :
        b \in {tag, MainBranch}, w \in WorkflowNames, c \in Conclusions }
    \cup
    { Run(b, w, "in_progress", "", 101) :
        b \in {tag, MainBranch}, w \in WorkflowNames }

SeqsUpTo(S, n) == UNION { [1..k -> S] : k \in 0..n }

\* outcome of one poll's commands: `gh run list` (listOk = exit status 0 and
\* parseable JSON, runs = the array) and `gh release view <tag>` (release =
\* exit status 0)
QueryOutcomes(tag) ==
    [listOk : BOOLEAN, runs : SeqsUpTo(RunsFor(tag), MaxRuns), release : BOOLEAN]

(* ------------------------------------------------------------------ *)
(* get_release_run / check_workflow_completed                          *)
(* ------------------------------------------------------------------ *)

RECURSIVE FirstReleaseRun(_, _, _)
\* the for loop of get_release_run from index i on
FirstReleaseRun(runs, tag, i) ==
    IF i > Len(runs) THEN None
    ELSE IF runs[i].headBranch = tag /\ runs[i].workflowName \in RELEASE_WORKFLOWS
         THEN runs[i]
         ELSE FirstReleaseRun(runs, tag, i + 1)

\* faulty variant: the first run on the tag, whatever its workflow
get_release_run_AnyWorkflow(q, tag) ==
    IF ~q.listOk THEN <<None, FALSE>>
    ELSE LET hits == {i \in 1..Len(q.runs) : q.runs[i].headBranch = tag}
         IN  IF hits = {} THEN <<None, TRUE>>
             ELSE <<q.runs[CHOOSE i \in hits : \A j \in hits : i <= j], TRUE>>

\* <<run, ok>>
get_release_run(q, tag) ==
    IF ~q.listOk THEN <<None, FALSE>>
    ELSE <<FirstReleaseRun(q.runs, tag, 1), TRUE>>

\* faulty variant: a failed run-list query is reported as a failed workflow
check_workflow_completed_FailOnError(q, tag) ==
    LET r == get_release_run(q, tag) IN
    IF ~r[2] THEN FAILED
    ELSE IF r[1] = None THEN (IF q.release THEN SUCCEEDED ELSE PENDING)
    ELSE IF r[1].status = "completed"
         THEN IF r[1].conclusion = "success" THEN SUCCEEDED
              ELSE IF r[1].conclusion \in {"failure", "cancelled"} THEN FAILED
              ELSE SUCCEEDED
         ELSE PENDING

check_workflow_completed(q, tag) ==
    LET r == get_release_run(q, tag) IN
    IF ~r[2] THEN (IF q.release THEN SUCCEEDED ELSE PENDING)
    ELSE IF r[1] = None THEN (IF q.release THEN SUCCEEDED ELSE PENDING)
    ELSE IF r[1].status = "completed"
         THEN IF r[1].conclusion = "success" THEN SUCCEEDED
              ELSE IF r[1].conclusion \in {"failure", "cancelled"} THEN FAILED
              ELSE SUCCEEDED
         ELSE PENDING

\* print_workflow_logs: TRUE iff the log is printed; viewOk = `gh run view
\* <id> --log` ended with status 0 and non-empty output
print_workflow_logs(q, tag, viewOk) ==
    LET r == get_release_run(q, tag) IN
    IF ~r[2] THEN FALSE
    ELSE IF r[1] = None \/ r[1].databaseId = 0 THEN FALSE
    ELSE viewOk

(* ------------------------------------------------------------------ *)
(* State                                                               *)
(* ------------------------------------------------------------------ *)

VARIABLES
    pc,               \* position of main(): "start", "select", "step1a",
                      \* "core_process", "core_wait", "step1b", "loop_process",
                      \* "full_wait", "step3", "exit"; "check"/"checked" in SpecCheck
    args,             \* parsed command line: update_versions, no_wait_core, repo
    version_tag,      \* args.version_tag
    version,          \* version_tag[1:], None before it is computed
    response,         \* the answer read at the prompt, "none" when there is none:
                      \* main's local, dead once line 817 has tested it
    repos_to_process, \* main's list
    loop_i,           \* index of the `for repo in repos_to_process` loop
    exit_code,        \* process exit status, -1 while running
    exit_reason,      \* which statement ended the process
    dirs,             \* file system: per repository "ok", "nogit" or "missing"
    cur,              \* process_repo: its repo argument
    ppc,              \* process_repo: position
    files_updated,    \* process_repo: local
    inv,              \* process_repo: commands this invocation has run
    repos_to_wait,    \* wait_for_repos: its argument
    wpc,              \* wait_for_repos: position
    elapsed,          \* wait_for_repos: local
    widx,             \* wait_for_repos: index of the `for repo in repos_to_wait` loop
    all_completed,    \* wait_for_repos: local
    any_failed,       \* wait_for_repos: local
    logged_failures,  \* wait_for_repos: local
    processed,        \* history: calls of process_repo per repository
    waits_returned,   \* history: the wait_for_repos calls that returned ("core", "full")
    triggers,         \* history: outcomes of `gh workflow run`, in order
    passes,           \* history: poll passes begun in this wait_for_repos call
    pass_results,     \* history: the classifications this pass has produced
    polled,           \* history: repositories polled in this pass
    log_calls,        \* history: print_workflow_logs calls per repository, this call
    ever_failed,      \* history: repositories classified FAILED in this call
    last_log,         \* history: what the latest poll's print_workflow_logs did
    first_contains,   \* history, first pass: every run list so far holds a
                      \*   completed success run on the tag
    first_selected,   \* history, first pass: in every run list so far the selected
                      \*   release run is completed with success
    last_poll,        \* history, first pass: the latest poll
    chk_q,            \* SpecCheck: the query outcome under classification
    chk_result,       \* SpecCheck: what check_workflow_completed returned
    p_fn,             \* SpecPatch: the patch function under application
    p_tag,            \* SpecPatch: the version tag of the run
    p_first,          \* SpecPatch: the file before the first call
    p_file,           \* SpecPatch: the file now
    p_rets,           \* SpecPatch: what each call so far returned, in order
    p_files,          \* SpecPatch: the file after each call so far, in order
    r_inv,            \* SpecRerun: which process_repo invocation on the repository
    r_pc,             \* SpecRerun: position in process_repo, "wait", "done"
    r_updated,        \* SpecRerun: process_repo's files_updated
    r_files,          \* SpecRerun: working tree, "old" or "new" version in the files
    r_head,           \* SpecRerun: local HEAD, "base" or the "bump" commit
    r_main,           \* SpecRerun: origin/main, "base" or "bump"
    r_tag,            \* SpecRerun: commit the tag points to at origin, "none" if absent
    r_pending,        \* SpecRerun: tag pushes GitHub has not yet started a run for
    r_runs,           \* SpecRerun: the repository's workflow runs, newest first
    r_release,        \* SpecRerun: a release for the tag exists
    r_result,         \* SpecRerun: what the latest poll of this invocation returned
    a_inv,            \* SpecAuth: which process_repo invocation on the repository
    a_pc,             \* SpecAuth: "diag", "auth", "done"
    a_env,            \* SpecAuth: the environment variables holding tokens
    a_url,            \* SpecAuth: the URL of the origin remote
    a_log,            \* SpecAuth: the lines printed so far
    a_ret,            \* SpecAuth: what the latest setup_git_auth returned, and for
                      \*   False at which return statement
    x_pc,             \* SpecIndex: "build" or "manifest", which script runs next
    x_builds,         \* SpecIndex: build_index runs so far
    x_args,           \* SpecIndex: force_rebuild and package_filter of the latest build
    x_registry,       \* SpecIndex: index.json, per package its wheel_filter
    x_releases,       \* SpecIndex: per package, what get_releases returns
    x_manifest,       \* SpecIndex: packages.json, per package its wheel_count
    x_pages,          \* SpecIndex: per package, the links of its page
    x_returned,       \* SpecIndex: per package, what generate_package_page returned
    x_counts,         \* SpecIndex: per package, the count in the root index
    q_registry,       \* SpecPoll: the "packages" list of index.json
    q_polls           \* SpecPoll: poll_external_releases runs so far

mainVars == <<pc, args, version_tag, version, response, repos_to_process, loop_i,
              exit_code, exit_reason, dirs>>

procVars == <<cur, ppc, files_updated, inv>>

waitVars == <<repos_to_wait, wpc, elapsed, widx, all_completed, any_failed,
              logged_failures>>

histVars == <<processed, waits_returned, triggers>>

waitHist == <<passes, pass_results, polled, log_calls, ever_failed, last_log,
              first_contains, first_selected, last_poll>>

chkVars == <<chk_q, chk_result>>

patchVars == <<p_fn, p_tag, p_first, p_file, p_rets, p_files>>

rerunVars == <<r_inv, r_pc, r_updated, r_files, r_head, r_main, r_tag, r_pending,
               r_runs, r_release, r_result>>

authVars == <<a_inv, a_pc, a_env, a_url, a_log, a_ret>>

indexVars == <<x_pc, x_builds, x_args, x_registry, x_releases, x_manifest, x_pages, x_returned,
               x_counts>>

pollVars == <<q_registry, q_polls>>

extVars == <<rerunVars, authVars, indexVars, pollVars>>

vars == <<mainVars, procVars, waitVars, histVars, waitHist, chkVars, patchVars,
          extVars>>

DirStates == {"ok", "nogit", "missing"}

\* file systems the model starts from: at most one repository directory is
\* missing or is no git working copy
DirConfigs ==
    { d \in [RepoSet -> DirStates] :
        Cardinality({r \in RepoSet : d[r] # "ok"}) <= 1 }

NoInv == [auth |-> FALSE, patch |-> "no", stage |-> FALSE, commit |-> "no",
          push_main |-> "no", tag |-> FALSE, push_tag |-> "no"]

ProcIdle ==
    /\ cur = ""
    /\ ppc = "idle"
    /\ files_updated = FALSE
    /\ inv = NoInv

WaitIdle ==
    /\ repos_to_wait = <<>>
    /\ wpc = "idle"
    /\ elapsed = 0
    /\ widx = 0
    /\ all_completed = FALSE
    /\ any_failed = FALSE
    /\ logged_failures = {}
    /\ passes = 0
    /\ pass_results = {}
    /\ polled = {}
    /\ log_calls = [r \in RepoSet |-> 0]
    /\ ever_failed = {}
    /\ last_log = "none"
    /\ first_contains = FALSE
    /\ first_selected = FALSE
    /\ last_poll = None

RerunIdle ==
    /\ r_inv = 0
    /\ r_pc = "idle"
    /\ r_updated = FALSE
    /\ r_files = "old"
    /\ r_head = "base"
    /\ r_main = "base"
    /\ r_tag = "none"
    /\ r_pending = {}
    /\ r_runs = <<>>
    /\ r_release = FALSE
    /\ r_result = -1

AuthIdle ==
    /\ a_inv = 0
    /\ a_pc = "idle"
    /\ a_env = <<>>
    /\ a_url = <<>>
    /\ a_log = {}
    /\ a_ret = "none"

IndexIdle ==
    /\ x_pc = "idle"
    /\ x_builds = 0
    /\ x_args = <<>>
    /\ x_registry = <<>>
    /\ x_releases = <<>>
    /\ x_manifest = <<>>
    /\ x_pages = <<>>
    /\ x_returned = <<>>
    /\ x_counts = <<>>

PollIdle ==
    /\ q_registry = <<>>
    /\ q_polls = 0

ExtIdle == RerunIdle /\ AuthIdle /\ IndexIdle /\ PollIdle

PatchIdle ==
    /\ p_fn = "none"
    /\ p_tag = <<>>
    /\ p_first = [exists |-> FALSE, lines |-> <<>>]
    /\ p_file = [exists |-> FALSE, lines |-> <<>>]
    /\ p_rets = <<>>
    /\ p_files = <<>>

Init ==
    /\ PatchIdle
    /\ ExtIdle
    /\ pc = "start"
    /\ args \in [update_versions : BOOLEAN, no_wait_core : BOOLEAN, repo : RepoArgs]
    /\ version_tag \in Tags
    /\ version = None
    /\ response = "none"
    /\ repos_to_process = REPOS
    /\ loop_i = 0
    /\ exit_code = -1
    /\ exit_reason = "running"
    /\ dirs \in DirConfigs
    /\ ProcIdle
    /\ WaitIdle
    /\ processed = [r \in RepoSet |-> 0]
    /\ waits_returned = {}
    /\ triggers = <<>>
    /\ chk_q = None
    /\ chk_result = -1

\* sys.exit(code), or an exception that reaches the top of main
Exit(code, reason) ==
    /\ pc' = "exit"
    /\ exit_code' = code
    /\ exit_reason' = reason

(* ------------------------------------------------------------------ *)
(* Calls and returns                                                   *)
(* ------------------------------------------------------------------ *)

\* main calls process_repo(r, ...)
CallProcess(r) ==
    /\ cur' = r
    /\ ppc' = "enter"
    /\ files_updated' = FALSE
    /\ inv' = NoInv
    /\ processed' = [processed EXCEPT ![r] = @ + 1]

\* process_repo has returned to main: its frame is gone
ProcReset ==
    /\ cur' = ""
    /\ ppc' = "idle"
    /\ files_updated' = FALSE
    /\ inv' = NoInv

\* the frame of wait_for_repos(rs, ...) at position `at`, its locals as the
\* function's first two statements leave them: elapsed = 0, logged_failures = set()
WaitFrame(rs, at) ==
    /\ repos_to_wait' = rs
    /\ wpc' = at
    /\ elapsed' = 0
    /\ widx' = 0
    /\ all_completed' = FALSE
    /\ any_failed' = FALSE
    /\ logged_failures' = {}
    /\ passes' = 0
    /\ pass_results' = {}
    /\ polled' = {}
    /\ log_calls' = [r \in RepoSet |-> 0]
    /\ ever_failed' = {}
    /\ last_log' = "none"
    /\ first_contains' = FALSE
    /\ first_selected' = FALSE
    /\ last_poll' = None

\* main calls wait_for_repos(rs, ...)
CallWait(rs) == WaitFrame(rs, "test")

\* wait_for_repos has returned to main: its frame is gone
WaitReset == WaitFrame(<<>>, "idle")

(* ------------------------------------------------------------------ *)
(* main                                                                *)
(* ------------------------------------------------------------------ *)

\* str.startswith("v")
StartsWithV(tag) == Len(tag) > 0 /\ Head(tag) = "v"

\* tag[1:]
DropFirst(tag) == IF Len(tag) = 0 THEN tag ELSE Tail(tag)

\* faulty variant: any answer continues
Accepts_Any(r) == TRUE

\* line 817: response.lower() in ["y", "yes"]
Accepts(r) == Lower(r) \in {"y", "yes"}

\* lines 812-820: the format warning, the prompt, version = version_tag[1:]
Main_CheckTag ==
    /\ pc = "start"
    /\ IF StartsWithV(version_tag)
       THEN /\ response' = "none"
            /\ version' = DropFirst(version_tag)
            /\ pc' = "select"
            /\ UNCHANGED <<exit_code, exit_reason>>
       ELSE \E r \in Responses :
            /\ response' = r
            /\ IF ~Accepts(r)
               THEN /\ Exit(1, "declined")
                    /\ UNCHANGED version
               ELSE /\ version' = DropFirst(version_tag)
                    /\ pc' = "select"
                    /\ UNCHANGED <<exit_code, exit_reason>>
    /\ UNCHANGED <<args, version_tag, repos_to_process, loop_i, dirs>>
    /\ UNCHANGED <<procVars, waitVars, histVars, waitHist, chkVars, patchVars, extVars>>

\* lines 822-830: repos_to_process
Main_SelectRepos ==
    /\ pc = "select"
    /\ IF args.repo # NoRepoArg
       THEN IF args.repo \notin RepoSet
            THEN /\ Exit(1, "unknown_repo")
                 /\ UNCHANGED repos_to_process
            ELSE /\ repos_to_process' = <<args.repo>>
                 /\ pc' = "step1a"
                 /\ UNCHANGED <<exit_code, exit_reason>>
       ELSE /\ repos_to_process' = REPOS
            /\ pc' = "step1a"
            /\ UNCHANGED <<exit_code, exit_reason>>
    /\ response' = "none"
    /\ UNCHANGED <<args, version_tag, version, loop_i, dirs>>
    /\ UNCHANGED <<procVars, waitVars, histVars, waitHist, chkVars, patchVars, extVars>>

\* faulty variant: nodetool-core is processed first even under --repo
Main_Step1a_AlwaysCore ==
    /\ pc = "step1a"
    /\ pc' = "core_process"
    /\ CallProcess(CORE)
    /\ UNCHANGED loop_i
    /\ UNCHANGED <<args, version_tag, version, response, repos_to_process, exit_code,
                   exit_reason, dirs, waits_returned, triggers>>
    /\ UNCHANGED <<waitVars, waitHist, chkVars, patchVars, extVars>>

\* lines 848-850: Step 1a, process_repo("nodetool-core") unless --repo is given
Main_Step1a ==
    /\ pc = "step1a"
    /\ IF args.repo = NoRepoArg
       THEN /\ pc' = "core_process"
            /\ CallProcess(CORE)
            /\ UNCHANGED loop_i
       ELSE /\ pc' = "step1b"
            /\ loop_i' = 1
            /\ UNCHANGED <<procVars, processed>>
    /\ UNCHANGED <<args, version_tag, version, response, repos_to_process, exit_code,
                   exit_reason, dirs, waits_returned, triggers>>
    /\ UNCHANGED <<waitVars, waitHist, chkVars, patchVars, extVars>>

\* faulty variant: Step 1b starts without waiting for nodetool-core
Main_AfterCore_NoWait ==
    /\ pc = "core_process"
    /\ ppc = "ret"
    /\ ProcReset
    /\ pc' = "step1b"
    /\ loop_i' = 1
    /\ UNCHANGED <<waitVars, waitHist>>
    /\ UNCHANGED <<args, version_tag, version, response, repos_to_process, exit_code,
                   exit_reason, dirs, histVars, chkVars, patchVars, extVars>>

\* lines 851-853: process_repo("nodetool-core") returned; wait for it unless
\* --no-wait-core
Main_AfterCore ==
    /\ pc = "core_process"
    /\ ppc = "ret"
    /\ ProcReset
    /\ IF ~args.no_wait_core
       THEN /\ pc' = "core_wait"
            /\ CallWait(<<CORE>>)
            /\ UNCHANGED loop_i
       ELSE /\ pc' = "step1b"
            /\ loop_i' = 1
            /\ UNCHANGED <<waitVars, waitHist>>
    /\ UNCHANGED <<args, version_tag, version, response, repos_to_process, exit_code,
                   exit_reason, dirs, histVars, chkVars, patchVars, extVars>>

\* line 854: wait_for_repos(["nodetool-core"]) returned
Main_CoreWaitDone ==
    /\ pc = "core_wait"
    /\ wpc = "ret"
    /\ WaitReset
    /\ waits_returned' = waits_returned \cup {"core"}
    /\ pc' = "step1b"
    /\ loop_i' = 1
    /\ UNCHANGED <<args, version_tag, version, response, repos_to_process, exit_code,
                   exit_reason, dirs, processed, triggers>>
    /\ UNCHANGED <<procVars, chkVars, patchVars, extVars>>

\* lines 856-861: the head of `for repo in repos_to_process`, and after the
\* loop the call wait_for_repos(repos_to_process)
Main_Step1b ==
    /\ pc = "step1b"
    /\ IF loop_i <= Len(repos_to_process)
       THEN /\ pc' = "loop_process"
            /\ CallProcess(repos_to_process[loop_i])
            /\ UNCHANGED <<waitVars, waitHist>>
       ELSE /\ pc' = "full_wait"
            /\ CallWait(repos_to_process)
            /\ UNCHANGED <<procVars, processed>>
    /\ UNCHANGED <<args, version_tag, version, response, repos_to_process, loop_i,
                   exit_code, exit_reason, dirs, waits_returned, triggers>>
    /\ UNCHANGED <<chkVars, patchVars, extVars>>

\* line 857-858: process_repo(repo) returned, next iteration
Main_LoopNext ==
    /\ pc = "loop_process"
    /\ ppc = "ret"
    /\ ProcReset
    /\ loop_i' = loop_i + 1
    /\ pc' = "step1b"
    /\ UNCHANGED <<args, version_tag, version, response, repos_to_process, exit_code,
                   exit_reason, dirs>>
    /\ UNCHANGED <<waitVars, histVars, waitHist, chkVars, patchVars, extVars>>

\* line 862: wait_for_repos(repos_to_process) returned
Main_FullWaitDone ==
    /\ pc = "full_wait"
    /\ wpc = "ret"
    /\ WaitReset
    /\ waits_returned' = waits_returned \cup {"full"}
    /\ pc' = "step3"
    /\ UNCHANGED <<args, version_tag, version, response, repos_to_process, loop_i,
                   exit_code, exit_reason, dirs, processed, triggers>>
    /\ UNCHANGED <<procVars, chkVars, patchVars, extVars>>

\* faulty variant: a failed trigger is only logged
Main_Trigger_IgnoreFailure ==
    /\ pc = "step3"
    /\ \E ok \in BOOLEAN :
        /\ triggers' = Append(triggers, ok)
        /\ Exit(0, "completed")
    /\ UNCHANGED <<args, version_tag, version, response, repos_to_process, loop_i, dirs,
                   processed, waits_returned>>
    /\ UNCHANGED <<procVars, waitVars, waitHist, chkVars, patchVars, extVars>>

\* lines 864-892: Step 3, `gh workflow run REGISTRY_WORKFLOW_ID`; main returns
\* (exit status 0) when it succeeds, sys.exit(1) otherwise
Main_Trigger ==
    /\ pc = "step3"
    /\ \E ok \in BOOLEAN :
        /\ triggers' = Append(triggers, ok)
        /\ IF ok THEN Exit(0, "completed") ELSE Exit(1, "trigger_failed")
    /\ UNCHANGED <<args, version_tag, version, response, repos_to_process, loop_i, dirs,
                   processed, waits_returned>>
    /\ UNCHANGED <<procVars, waitVars, waitHist, chkVars, patchVars, extVars>>

(* ------------------------------------------------------------------ *)
(* process_repo                                                        *)
(* ------------------------------------------------------------------ *)

InProcess == pc \in {"core_process", "loop_process"}

\* everything process_repo leaves alone
ProcFrame ==
    /\ UNCHANGED <<args, version_tag, version, response, repos_to_process, loop_i, dirs>>
    /\ UNCHANGED <<waitVars, histVars, waitHist, chkVars, patchVars, extVars>>

\* faulty variant: the directory is not looked at
P_Enter_NoDirCheck ==
    /\ pc \in {"core_process", "loop_process"}
    /\ ppc = "enter"
    /\ \E auth \in {"configured", "skipped"} :
        /\ ppc' = "patch"
        /\ inv' = [inv EXCEPT !.auth = (auth = "configured")]
    /\ UNCHANGED <<cur, files_updated, pc, exit_code, exit_reason>>
    /\ UNCHANGED <<args, version_tag, version, response, repos_to_process, loop_i, dirs>>
    /\ UNCHANGED <<waitVars, histVars, waitHist, chkVars, patchVars, extVars>>

\* lines 577-592: the directory checks, print_git_diagnostics, setup_git_auth
\* (auth = "configured": remote URL rewritten; "skipped": no token or no GitHub
\* remote; "raised": `git remote set-url` failed under check=True)
P_Enter ==
    /\ InProcess
    /\ ppc = "enter"
    /\ IF dirs[cur] # "ok"
       THEN /\ ppc' = "ret"
            /\ UNCHANGED <<inv, pc, exit_code, exit_reason>>
       ELSE \E auth \in {"configured", "skipped", "raised"} :
            IF auth = "raised"
            THEN /\ Exit(1, "exception")
                 /\ UNCHANGED <<ppc, inv>>
            ELSE /\ ppc' = "patch"
                 /\ inv' = [inv EXCEPT !.auth = (auth = "configured")]
                 /\ UNCHANGED <<pc, exit_code, exit_reason>>
    /\ UNCHANGED <<cur, files_updated>>
    /\ ProcFrame

\* a decimal digit
IsOctDigit(c) == c \in {"0", "1", "2", "3", "4", "5", "6", "7"}

IsDigit(c) == c \in {"0", "1", "2", "3", "4", "5", "6", "7", "8", "9"}

\* the replacement templates rf"\1{version_tag}\3" and rf"\1{version_tag}" of
\* update_copilot_core_ref and update_git_package_refs: when the tag begins
\* with a digit, "\1" and that digit read as one group number that the pattern
\* does not have, and re raises "invalid group reference"; when the first two
\* characters are both octal digits, "\1dd" reads as an octal escape instead
TemplateRaises(tag) ==
    /\ Len(tag) > 0
    /\ IsDigit(tag[1])
    /\ ~(Len(tag) >= 2 /\ IsOctDigit(tag[1]) /\ IsOctDigit(tag[2]))

\* faulty variant: the files are patched whatever --update-versions says
P_Patch_Always ==
    /\ pc \in {"core_process", "loop_process"}
    /\ ppc = "patch"
    /\ \E changed \in BOOLEAN :
        /\ files_updated' = changed
        /\ inv' = [inv EXCEPT !.patch = "library"]
        /\ ppc' = IF changed THEN "stage" ELSE "tag"
    /\ UNCHANGED <<cur, pc, exit_code, exit_reason>>
    /\ UNCHANGED <<args, version_tag, version, response, repos_to_process, loop_i, dirs>>
    /\ UNCHANGED <<waitVars, histVars, waitHist, chkVars, patchVars, extVars>>

\* lines 596-638: the Version Patcher calls, the library set (lines 603-624) or
\* for the repository "nodetool" the main-application set (lines 626-634);
\* outcome "changed": some patch function or the package scan reported a
\* change; "raised": a file patched with version_tag exists and the template
\* is invalid
P_Patch ==
    /\ InProcess
    /\ ppc = "patch"
    /\ IF args.update_versions
       THEN \E outcome \in {"changed", "unchanged", "raised"} :
            /\ outcome = "raised" => (cur # "nodetool" /\ TemplateRaises(version_tag))
            /\ IF outcome = "raised"
               THEN /\ Exit(1, "exception")
                    /\ UNCHANGED <<files_updated, inv, ppc>>
               ELSE /\ files_updated' = (outcome = "changed")
                    /\ inv' = [inv EXCEPT !.patch = IF cur = "nodetool"
                                                    THEN "main_app" ELSE "library"]
                    /\ ppc' = IF outcome = "changed" THEN "stage" ELSE "tag"
                    /\ UNCHANGED <<pc, exit_code, exit_reason>>
       ELSE /\ ppc' = "tag"
            /\ UNCHANGED <<files_updated, inv, pc, exit_code, exit_reason>>
    /\ UNCHANGED cur
    /\ ProcFrame

\* lines 640-682: `git add` of the known files, each under check=True
P_Stage ==
    /\ InProcess
    /\ ppc = "stage"
    /\ \E ok \in BOOLEAN :
        IF ok
        THEN /\ inv' = [inv EXCEPT !.stage = TRUE]
             /\ ppc' = "commit"
             /\ UNCHANGED <<pc, exit_code, exit_reason>>
        ELSE /\ Exit(1, "exception")
             /\ UNCHANGED <<ppc, inv>>
    /\ UNCHANGED <<cur, files_updated>>
    /\ ProcFrame

\* lines 684-690, 707-710: `git commit`, check=False
P_Commit ==
    /\ InProcess
    /\ ppc = "commit"
    /\ \E ok \in BOOLEAN :
        /\ inv' = [inv EXCEPT !.commit = IF ok THEN "ok" ELSE "failed"]
        /\ ppc' = IF ok THEN "push" ELSE "tag"
    /\ UNCHANGED <<cur, files_updated, pc, exit_code, exit_reason>>
    /\ ProcFrame

\* faulty variant: a failed push is logged and the tag is created all the same
P_Push_FallThrough ==
    /\ InProcess
    /\ ppc = "push"
    /\ \E ok \in BOOLEAN :
        /\ inv' = [inv EXCEPT !.push_main = IF ok THEN "ok" ELSE "failed"]
        /\ ppc' = "tag"
    /\ UNCHANGED <<cur, files_updated, pc, exit_code, exit_reason>>
    /\ ProcFrame

\* lines 692-706: `git push -v origin main`, check=False; on failure return
P_Push ==
    /\ InProcess
    /\ ppc = "push"
    /\ \E ok \in BOOLEAN :
        /\ inv' = [inv EXCEPT !.push_main = IF ok THEN "ok" ELSE "failed"]
        /\ ppc' = IF ok THEN "tag" ELSE "ret"
    /\ UNCHANGED <<cur, files_updated, pc, exit_code, exit_reason>>
    /\ ProcFrame

\* lines 714-718: `git tag -f -a <version_tag>`, check=True
P_Tag ==
    /\ InProcess
    /\ ppc = "tag"
    /\ \E ok \in BOOLEAN :
        IF ok
        THEN /\ inv' = [inv EXCEPT !.tag = TRUE]
             /\ ppc' = "pushtag"
             /\ UNCHANGED <<pc, exit_code, exit_reason>>
        ELSE /\ Exit(1, "exception")
             /\ UNCHANGED <<ppc, inv>>
    /\ UNCHANGED <<cur, files_updated>>
    /\ ProcFrame

\* faulty variant: the tag push runs under check=True and its failure raises
P_PushTag_Raises ==
    /\ pc \in {"core_process", "loop_process"}
    /\ ppc = "pushtag"
    /\ \E ok \in BOOLEAN :
        /\ inv' = [inv EXCEPT !.push_tag = IF ok THEN "ok" ELSE "failed"]
        /\ IF ok
           THEN /\ ppc' = "ret"
                /\ UNCHANGED <<pc, exit_code, exit_reason>>
           ELSE /\ Exit(1, "exception")
                /\ UNCHANGED ppc
    /\ UNCHANGED <<cur, files_updated>>
    /\ UNCHANGED <<args, version_tag, version, response, repos_to_process, loop_i, dirs>>
    /\ UNCHANGED <<waitVars, histVars, waitHist, chkVars, patchVars, extVars>>

\* lines 720-733: `git push -v -f origin <version_tag>`, check=False
P_PushTag ==
    /\ InProcess
    /\ ppc = "pushtag"
    /\ \E ok \in BOOLEAN :
        /\ inv' = [inv EXCEPT !.push_tag = IF ok THEN "ok" ELSE "failed"]
        /\ ppc' = "ret"
    /\ UNCHANGED <<cur, files_updated, pc, exit_code, exit_reason>>
    /\ ProcFrame

(* ------------------------------------------------------------------ *)
(* wait_for_repos                                                      *)
(* ------------------------------------------------------------------ *)

\* what the polls of the orchestration meet: one query outcome for each path
\* of get_release_run and check_workflow_completed, and the run lists in which
\* a run on the tag is not the one selected
PollInputs(tag) ==
    LET Q(ok, runs, rel) == [listOk |-> ok, runs |-> runs, release |-> rel] IN
    { Q(FALSE, <<>>, TRUE),
      Q(FALSE, <<>>, FALSE),
      Q(TRUE, <<>>, FALSE),
      Q(TRUE, <<Run(MainBranch, "Release", "completed", "failure", 101)>>, TRUE),
      Q(TRUE, <<Run(tag, "Release", "completed", "success", 101)>>, FALSE),
      Q(TRUE, <<Run(tag, "Release", "completed", "failure", 101)>>, FALSE),
      Q(TRUE, <<Run(tag, "Build and Publish Wheel", "completed", "cancelled", 0)>>, TRUE),
      Q(TRUE, <<Run(tag, "Release", "completed", "timed_out", 101)>>, FALSE),
      Q(TRUE, <<Run(tag, "Release", "in_progress", "", 101)>>, FALSE),
      Q(TRUE, <<Run(tag, "CI", "completed", "success", 101)>>, FALSE),
      Q(TRUE, <<Run(tag, "Release", "in_progress", "", 101),
                Run(tag, "Release", "completed", "success", 101)>>, TRUE),
      Q(TRUE, <<Run(tag, "CI", "completed", "failure", 101),
                Run(tag, "Build and Publish Wheel", "completed", "success", 101)>>,
        FALSE) }

\* the run list holds a completed run with conclusion success on the tag
ContainsSuccessRun(q, tag) ==
    /\ q.listOk
    /\ \E i \in 1..Len(q.runs) :
        /\ q.runs[i].headBranch = tag
        /\ q.runs[i].status = "completed"
        /\ q.runs[i].conclusion = "success"

\* the first run of the list that is on the tag and belongs to a release
\* workflow is completed with conclusion success
SelectedRunSucceeded(q, tag) ==
    /\ q.listOk
    /\ \E i \in 1..Len(q.runs) :
        /\ q.runs[i].headBranch = tag
        /\ q.runs[i].workflowName \in {"Build and Publish Wheel", "Release"}
        /\ q.runs[i].status = "completed"
        /\ q.runs[i].conclusion = "success"
        /\ \A j \in 1..(i - 1) :
            ~(/\ q.runs[j].headBranch = tag
              /\ q.runs[j].workflowName \in {"Build and Publish Wheel", "Release"})

InWait == pc \in {"core_wait", "full_wait"}

\* everything wait_for_repos leaves alone
WaitFrameRest ==
    /\ UNCHANGED <<args, version_tag, version, response, repos_to_process, loop_i, dirs>>
    /\ UNCHANGED <<procVars, histVars, chkVars, patchVars, extVars>>

\* faulty variant: the budget test lets one more pass through
LoopCond_OffByOne(e) == e <= MAX_WAIT

\* line 740: while elapsed < MAX_WAIT
LoopCond(e) == e < MAX_WAIT

\* faulty variant: the failure is not remembered
LoggedAfter_Forget(logged, repo) == logged

\* line 757: logged_failures.add(repo)
LoggedAfter(logged, repo) == logged \cup {repo}

\* lines 740-742, 775-776: the loop test; a new pass, or the timeout
W_LoopTest ==
    /\ InWait
    /\ wpc = "test"
    /\ IF LoopCond(elapsed)
       THEN /\ all_completed' = TRUE
            /\ any_failed' = FALSE
            /\ widx' = 1
            /\ wpc' = "poll"
            /\ passes' = passes + 1
            /\ pass_results' = {}
            /\ polled' = {}
            /\ first_contains' = (passes = 0)
            /\ first_selected' = (passes = 0)
            /\ last_poll' = None
            /\ last_log' = "none"
            /\ UNCHANGED <<pc, exit_code, exit_reason>>
       ELSE /\ Exit(1, "timeout")
            /\ UNCHANGED <<all_completed, any_failed, widx, wpc, passes,
                           pass_results, polled, first_contains, first_selected,
                           last_poll, last_log>>
    /\ UNCHANGED <<repos_to_wait, elapsed, logged_failures, log_calls, ever_failed>>
    /\ WaitFrameRest

\* lines 744-762: one iteration of `for repo in repos_to_wait`: the directory
\* test, check_workflow_completed (q), and on a failure not yet logged
\* print_workflow_logs (its own run-list query q2 and `gh run view`, viewOk)
W_Poll ==
    /\ InWait
    /\ wpc = "poll"
    /\ widx <= Len(repos_to_wait)
    /\ LET repo == repos_to_wait[widx] IN
       IF dirs[repo] = "missing"
       THEN /\ first_contains' = FALSE
            /\ first_selected' = FALSE
            /\ last_poll' = None
            /\ last_log' = "none"
            /\ UNCHANGED <<all_completed, any_failed, logged_failures,
                           pass_results, polled, log_calls, ever_failed>>
       ELSE \E q \in PollInputs(version_tag) :
            LET result == check_workflow_completed(q, version_tag)
                c == ContainsSuccessRun(q, version_tag)
                s == SelectedRunSucceeded(q, version_tag)
            IN
            /\ polled' = polled \cup {repo}
            /\ pass_results' = pass_results \cup {result}
            /\ first_contains' = (first_contains /\ c)
            /\ first_selected' = (first_selected /\ s)
            /\ last_poll' = IF passes = 1
                            THEN [contains |-> c, selected |-> s, result |-> result]
                            ELSE None
            /\ IF result = SUCCEEDED
               THEN /\ last_log' = "none"
                    /\ UNCHANGED <<all_completed, any_failed, logged_failures,
                                   log_calls, ever_failed>>
               ELSE IF result = FAILED
               THEN /\ IF repo \notin logged_failures
                       THEN /\ \E q2 \in PollInputs(version_tag), viewOk \in BOOLEAN :
                                last_log' =
                                    IF print_workflow_logs(q2, version_tag, viewOk)
                                    THEN "printed" ELSE "warned"
                            /\ log_calls' = [log_calls EXCEPT ![repo] = @ + 1]
                            /\ logged_failures' = LoggedAfter(logged_failures, repo)
                       ELSE /\ last_log' = "none"
                            /\ UNCHANGED <<log_calls, logged_failures>>
                    /\ ever_failed' = ever_failed \cup {repo}
                    /\ any_failed' = TRUE
                    /\ all_completed' = FALSE
               ELSE /\ all_completed' = FALSE
                    /\ last_log' = "none"
                    /\ UNCHANGED <<any_failed, logged_failures, log_calls,
                                   ever_failed>>
    /\ widx' = widx + 1
    /\ UNCHANGED <<repos_to_wait, wpc, elapsed, passes>>
    /\ UNCHANGED <<pc, exit_code, exit_reason>>
    /\ WaitFrameRest

\* lines 764-773: after the for loop: return, sys.exit(1), or sleep
W_PassEnd ==
    /\ InWait
    /\ wpc = "poll"
    /\ widx > Len(repos_to_wait)
    /\ IF all_completed
       THEN IF any_failed
            THEN /\ Exit(1, "workflow_failed")
                 /\ UNCHANGED <<wpc, elapsed>>
            ELSE /\ wpc' = "ret"
                 /\ UNCHANGED <<pc, exit_code, exit_reason, elapsed>>
       ELSE /\ elapsed' = IF elapsed < MAX_WAIT
                          THEN elapsed + POLL_INTERVAL
                          ELSE elapsed
            /\ wpc' = "test"
            /\ UNCHANGED <<pc, exit_code, exit_reason>>
    /\ UNCHANGED <<repos_to_wait, widx, all_completed, any_failed, logged_failures>>
    /\ UNCHANGED waitHist
    /\ WaitFrameRest

(* ------------------------------------------------------------------ *)
(* Specifications                                                      *)
(* ------------------------------------------------------------------ *)

Next ==
    \/ Main_CheckTag
    \/ Main_SelectRepos
    \/ Main_Step1a
    \/ Main_AfterCore
    \/ Main_CoreWaitDone
    \/ Main_Step1b
    \/ Main_LoopNext
    \/ Main_FullWaitDone
    \/ Main_Trigger
    \/ P_Enter
    \/ P_Patch
    \/ P_Stage
    \/ P_Commit
    \/ P_Push
    \/ P_Tag
    \/ P_PushTag
    \/ W_LoopTest
    \/ W_Poll
    \/ W_PassEnd

\* one run of release.py
Spec == Init /\ [][Next]_vars

\* the classification of one query outcome, for every outcome within the bounds
InitCheck ==
    /\ pc = "check"
    /\ args = [update_versions |-> FALSE, no_wait_core |-> FALSE, repo |-> NoRepoArg]
    /\ version_tag \in Tags
    /\ version = None
    /\ response = "none"
    /\ repos_to_process = REPOS
    /\ loop_i = 0
    /\ exit_code = -1
    /\ exit_reason = "running"
    /\ dirs = [r \in RepoSet |-> "ok"]
    /\ ProcIdle
    /\ WaitIdle
    /\ processed = [r \in RepoSet |-> 0]
    /\ waits_returned = {}
    /\ triggers = <<>>
    /\ chk_q \in QueryOutcomes(version_tag)
    /\ chk_result = -1
    /\ PatchIdle
    /\ ExtIdle

\* result = check_workflow_completed(repo_path, version_tag)
Classify ==
    /\ pc = "check"
    /\ chk_result' = check_workflow_completed(chk_q, version_tag)
    /\ pc' = "checked"
    /\ UNCHANGED <<args, version_tag, version, response, repos_to_process, loop_i,
                   exit_code, exit_reason, dirs, chk_q>>
    /\ UNCHANGED <<procVars, waitVars, histVars, waitHist, patchVars, extVars>>

NextCheck == Classify

SpecCheck == InitCheck /\ [][NextCheck]_vars

(* ------------------------------------------------------------------ *)
(* The version patchers (lines 281-417)                                *)
(* ------------------------------------------------------------------ *)

\* longest file, in lines
MaxLines == 3

\* A file is absent or a sequence of lines.  A line is a record; text is a
\* sequence of characters, a package name a sequence of its "-"-separated
\* parts.  Which fields a line kind uses:
\*   "version"  <lead>version = "<val>"
\*   "name"     name = "<pkg>"
\*   "dep"      <lead><q><pkg><op><val><q>,       q is " or '
\*   "const"    export const VERSION = "<val>"
\*   "ref"      <lead>NODETOOL_CORE_REF: <val><trail>
\*   "git"      <lead>git+https://github.com/nodetool-ai/<pkg>.git@<val>
\*   "pin"      <lead><pkg>==<val>
\*   "json"     a JSON object whose "version" member is <val> (<<>>: none),
\*              serialised in the layout <op>
\*   "badjson"  text that json.loads rejects
\*   "other"    <val>, a line none of the patterns matches
\*   "octal"    what the octal-escape template leaves of a matched line
Line(kind, lead, pkg, op, val, q, trail) ==
    [kind |-> kind, lead |-> lead, pkg |-> pkg, op |-> op, val |-> val,
     q |-> q, trail |-> trail]

Absent == [exists |-> FALSE, lines |-> <<>>]

File(ls) == [exists |-> TRUE, lines |-> ls]

V100 == <<"1", ".", "0", ".", "0">>

V090 == <<"0", ".", "9", ".", "0">>

PkgCore == <<"nodetool", "core">>

PkgCoreExtras == <<"nodetool", "core", "extras">>

PkgBase == <<"nodetool", "base">>

\* the tags the patchers are run under: main passes version_tag to the two
\* tag patchers and version_tag[1:] to the others (line 820)
PatchTags == { <<"v">> \o V100, V100, <<"1", "2">> }

OtherLine == Line("other", "", <<>>, "", <<"x">>, "", "")

VersionLines ==
    { Line("version", "", <<>>, "", V100, "", ""),
      Line("version", "", <<>>, "", V090, "", ""),
      Line("version", "  ", <<>>, "", V090, "", ""),
      Line("version", "", <<>>, "", <<>>, "", "") }

NameLines == { Line("name", "", PkgCore, "", <<>>, "\"", "") }

DepLines ==
    { Line("dep", "  ", PkgCore, ">=", V090, "\"", ""),
      Line("dep", "  ", PkgCore, "==", V100, "\"", ""),
      Line("dep", "  ", PkgCoreExtras, ">=", V090, "\"", ""),
      Line("dep", "  ", PkgBase, ">=", V090, "\"", ""),
      Line("dep", "  ", PkgCore, ">=", V090, "'", "") }

ConstLines ==
    { Line("const", "", <<>>, "", V100, "", ""),
      Line("const", "", <<>>, "", V090, "", "") }

RefLines ==
    { Line("ref", "", <<>>, "", <<"v">> \o V100, "", ""),
      Line("ref", "  ", <<>>, "", <<"m">>, "", " ") }

\* the text after ".git@" runs to the end of the line
GitLines ==
    { Line("git", "", PkgBase, "", <<"v">> \o V100, "", ""),
      Line("git", "", PkgBase, "", <<"m", "#", "e", "\"">>, "", ""),
      Line("git", "", PkgBase, "", <<"m", " ", "x">>, "", "") }

\* the text after "==" runs to the end of the line
PinLines ==
    { Line("pin", "", PkgBase, "", V100, "", ""),
      Line("pin", "", PkgBase, "", V090 \o <<"r", "'">>, "", ""),
      Line("pin", "", PkgBase, "", V090 \o <<" ", "x">>, "", ""),
      Line("pin", "", PkgBase, "", <<"v", "0">>, "", "") }

JsonDocs ==
    { Line("json", "", <<>>, op, val, "", "") :
        op \in {"indent2", "compact"}, val \in {V100, V090, <<>>} }
    \cup { Line("badjson", "", <<>>, "", <<>>, "", "") }

PatchFns ==
    { "update_pyproject_version", "update_nodetool_core_dependency",
      "update_package_json_version", "update_constants_version",
      "update_copilot_core_ref", "update_git_package_refs",
      "update_dockerfile_pypi_versions" }

\* the lines a file handed to fn is drawn from
LinesFor(fn) ==
    CASE fn = "update_pyproject_version" -> VersionLines \cup NameLines \cup {OtherLine}
      [] fn = "update_nodetool_core_dependency" ->
            DepLines \cup NameLines \cup {OtherLine}
      [] fn = "update_package_json_version" -> JsonDocs
      [] fn = "update_constants_version" -> ConstLines \cup {OtherLine}
      [] fn = "update_copilot_core_ref" -> RefLines \cup {OtherLine}
      [] fn = "update_git_package_refs" -> GitLines \cup {OtherLine}
      [] fn = "update_dockerfile_pypi_versions" -> PinLines \cup {OtherLine}

FilesFor(fn) ==
    {Absent} \cup
    IF fn = "update_package_json_version"
    THEN { File(<<d>>) : d \in JsonDocs }
    ELSE { File(ls) : ls \in SeqsUpTo(LinesFor(fn), MaxLines) }


\* what a call did: the file afterwards, whether write_text ran, and the
\* returned value ("True", "False") or "raised" for an exception
Result(file, wrote, ret) == [file |-> file, wrote |-> wrote, ret |-> ret]

NoChange(f) == Result(f, FALSE, "False")

MapLines(ls, F(_)) == [i \in 1..Len(ls) |-> F(ls[i])]

IsPrefix(p, s) == Len(p) <= Len(s) /\ SubSeq(s, 1, Len(p)) = p

\* index of the first character of s at or after i that is in Stop, Len(s)+1
\* when there is none
FirstStop(s, i, Stop) ==
    LET hits == {j \in i..Len(s) : s[j] \in Stop} IN
    IF hits = {} THEN Len(s) + 1
    ELSE CHOOSE j \in hits : \A k \in hits : j <= k

NonDigits(s) == {s[j] : j \in 1..Len(s)} \ {"0", "1", "2", "3", "4", "5", "6", "7", "8", "9"}

\* [0-9]+ from index i: the index after the digits, 0 when s[i] is no digit
DigitsEnd(s, i) ==
    LET e == FirstStop(s, i, NonDigits(s)) IN IF e > i THEN e ELSE 0

\* [0-9]+\.[0-9]+\.[0-9]+[^\s"]* at the start of s: the index after the
\* match, 0 when it does not match
PinMatchEnd(s) ==
    LET a == DigitsEnd(s, 1)
        b == IF a > 0 /\ a <= Len(s) /\ s[a] = "." THEN DigitsEnd(s, a + 1) ELSE 0
        c == IF b > 0 /\ b <= Len(s) /\ s[b] = "." THEN DigitsEnd(s, b + 1) ELSE 0
    IN  IF c > 0 THEN FirstStop(s, c, {" ", "\""}) ELSE 0

\* [^\s"'\\]+ at the start of s: the index after the match, 0 for no match
RefMatchEnd(s) ==
    LET e == FirstStop(s, 1, {" ", "\"", "'", "\\"}) IN IF e > 1 THEN e ELSE 0

\* "\1" followed by a tag whose first two characters are octal digits: the
\* character with that octal code, then the rest of the tag
OctalEscape(tag) == <<"chr">> \o tag

IsOctalTemplate(tag) ==
    Len(tag) >= 2 /\ IsOctDigit(tag[1]) /\ IsOctDigit(tag[2])

\* lines 351-365
update_pyproject_version(f, ver) ==
    IF ~f.exists THEN NoChange(f)
    ELSE LET Matches(l) == l.kind = "version" /\ l.val # <<>>
             Sub(l) == IF Matches(l) THEN [l EXCEPT !.val = ver] ELSE l
             count == Cardinality({i \in 1..Len(f.lines) : Matches(f.lines[i])})
         IN  IF count > 0
             THEN Result(File(MapLines(f.lines, Sub)), TRUE, "True")
             ELSE NoChange(f)

\* faulty variant: a name declaration is rewritten like any other line
update_nodetool_core_dependency_NoNameSkip(f, ver) ==
    IF ~f.exists THEN NoChange(f)
    ELSE LET Matches(l) == l.kind \in {"dep", "name"} /\ l.q = "\"" /\ IsPrefix(PkgCore, l.pkg)
             Sub(l) == IF Matches(l)
                       THEN [l EXCEPT !.pkg = PkgCore, !.op = "==", !.val = ver]
                       ELSE l
             new == File(MapLines(f.lines, Sub))
         IN  IF new # f THEN Result(new, TRUE, "True") ELSE NoChange(f)

\* lines 281-315
update_nodetool_core_dependency(f, ver) ==
    IF ~f.exists THEN NoChange(f)
    ELSE LET \* "nodetool-core" in text
             InText == \E i \in 1..Len(f.lines) : IsPrefix(PkgCore, f.lines[i].pkg)
             \* the pattern "nodetool-core[^"]*"
             Matches(l) == l.kind \in {"dep", "name"} /\ l.q = "\"" /\ IsPrefix(PkgCore, l.pkg)
             \* re.search(r"^\s*name\s*=", line)
             IsNameLine(l) == l.kind = "name"
             Sub(l) == IF Matches(l) /\ ~IsNameLine(l)
                       THEN [l EXCEPT !.pkg = PkgCore, !.op = "==", !.val = ver]
                       ELSE l
             updated == \E i \in 1..Len(f.lines) :
                            Matches(f.lines[i]) /\ ~IsNameLine(f.lines[i])
             new == File(MapLines(f.lines, Sub))
         IN  IF InText /\ updated /\ new # f
             THEN Result(new, TRUE, "True")
             ELSE NoChange(f)

\* lines 318-333
update_package_json_version(f, ver) ==
    IF ~f.exists THEN NoChange(f)
    ELSE LET data == f.lines[1] IN
         IF data.kind = "badjson" THEN NoChange(f)
         ELSE IF data.val = ver THEN NoChange(f)
         ELSE Result(File(<<[data EXCEPT !.val = ver, !.op = "indent2"]>>),
                     TRUE, "True")

\* lines 336-348
update_constants_version(f, ver) ==
    IF ~f.exists THEN NoChange(f)
    ELSE LET Matches(l) == l.kind = "const" /\ l.val # <<>>
             hits == {i \in 1..Len(f.lines) : Matches(f.lines[i])}
             first == CHOOSE i \in hits : \A k \in hits : i <= k
             new == File([f.lines EXCEPT ![first].val = ver])
         IN  IF hits # {} /\ new # f
             THEN Result(new, TRUE, "True")
             ELSE NoChange(f)

\* lines 368-380
update_copilot_core_ref(f, tag) ==
    IF ~f.exists THEN NoChange(f)
    ELSE IF TemplateRaises(tag) THEN Result(f, FALSE, "raised")
    ELSE LET Matches(l) == l.kind = "ref" /\ l.val # <<>> /\ " " \notin Range(l.val)
             Sub(l) == IF ~Matches(l) THEN l
                       ELSE IF IsOctalTemplate(tag)
                       THEN Line("octal", "", <<>>, "", OctalEscape(tag), "", l.trail)
                       ELSE [l EXCEPT !.val = tag]
             count == Cardinality({i \in 1..Len(f.lines) : Matches(f.lines[i])})
             new == File(MapLines(f.lines, Sub))
         IN  IF count > 0 /\ new # f
             THEN Result(new, TRUE, "True")
             ELSE NoChange(f)

\* faulty variant: the new tag is put in front of the old ref
update_git_package_refs_KeepsRef(f, tag) ==
    IF ~f.exists THEN NoChange(f)
    ELSE LET Matches(l) == l.kind = "git" /\ RefMatchEnd(l.val) > 0
             Sub(l) == IF Matches(l) THEN [l EXCEPT !.val = tag \o l.val] ELSE l
             new == File(MapLines(f.lines, Sub))
         IN  IF new # f THEN Result(new, TRUE, "True") ELSE NoChange(f)

\* lines 383-397
update_git_package_refs(f, tag) ==
    IF ~f.exists THEN NoChange(f)
    ELSE IF TemplateRaises(tag) THEN Result(f, FALSE, "raised")
    ELSE LET Matches(l) == l.kind = "git" /\ RefMatchEnd(l.val) > 0
             Rest(l) == SubSeq(l.val, RefMatchEnd(l.val), Len(l.val))
             Sub(l) == IF ~Matches(l) THEN l
                       ELSE IF IsOctalTemplate(tag)
                       THEN Line("octal", l.lead, <<>>, "", OctalEscape(tag) \o Rest(l), "", "")
                       ELSE [l EXCEPT !.val = tag \o Rest(l)]
             count == Cardinality({i \in 1..Len(f.lines) : Matches(f.lines[i])})
             new == File(MapLines(f.lines, Sub))
         IN  IF count > 0 /\ new # f
             THEN Result(new, TRUE, "True")
             ELSE NoChange(f)

\* lines 400-417
update_dockerfile_pypi_versions(f, ver) ==
    IF ~f.exists THEN NoChange(f)
    ELSE LET Matches(l) == l.kind = "pin" /\ PinMatchEnd(l.val) > 0
             Rest(l) == SubSeq(l.val, PinMatchEnd(l.val), Len(l.val))
             Sub(l) == IF Matches(l) THEN [l EXCEPT !.val = ver \o Rest(l)] ELSE l
             count == Cardinality({i \in 1..Len(f.lines) : Matches(f.lines[i])})
             new == File(MapLines(f.lines, Sub))
             updated == count > 0 /\ new # f
         IN  IF updated /\ new # f
             THEN Result(new, TRUE, "True")
             ELSE NoChange(f)

\* the call process_repo makes of fn under the tag: the version is
\* version_tag[1:] (line 820), the two ref patchers take the tag itself
\* (lines 603-638)
ApplyPatch(fn, f, tag) ==
    CASE fn = "update_pyproject_version" -> update_pyproject_version(f, DropFirst(tag))
      [] fn = "update_nodetool_core_dependency" ->
            update_nodetool_core_dependency(f, DropFirst(tag))
      [] fn = "update_package_json_version" ->
            update_package_json_version(f, DropFirst(tag))
      [] fn = "update_constants_version" -> update_constants_version(f, DropFirst(tag))
      [] fn = "update_copilot_core_ref" -> update_copilot_core_ref(f, tag)
      [] fn = "update_git_package_refs" -> update_git_package_refs(f, tag)
      [] fn = "update_dockerfile_pypi_versions" ->
            update_dockerfile_pypi_versions(f, DropFirst(tag))

\* one patch function, a file and a tag, for every choice within the bounds
InitPatch ==
    /\ pc = "patching"
    /\ args = [update_versions |-> TRUE, no_wait_core |-> FALSE, repo |-> NoRepoArg]
    /\ version = None
    /\ response = "none"
    /\ repos_to_process = REPOS
    /\ loop_i = 0
    /\ exit_code = -1
    /\ exit_reason = "running"
    /\ dirs = [r \in RepoSet |-> "ok"]
    /\ ProcIdle
    /\ WaitIdle
    /\ processed = [r \in RepoSet |-> 0]
    /\ waits_returned = {}
    /\ triggers = <<>>
    /\ chk_q = None
    /\ chk_result = -1
    /\ p_fn \in PatchFns
    /\ p_tag \in PatchTags
    /\ version_tag = p_tag
    /\ p_first \in FilesFor(p_fn)
    /\ p_file = p_first
    /\ p_rets = <<>>
    /\ p_files = <<>>
    /\ ExtIdle

\* one call of the patch function on the file as the previous call left it
PatchCall ==
    /\ pc = "patching"
    /\ Len(p_rets) < 2
    /\ LET r == ApplyPatch(p_fn, p_file, p_tag) IN
        /\ p_file' = r.file
        /\ p_rets' = Append(p_rets, [ret |-> r.ret, wrote |-> r.wrote])
        /\ p_files' = Append(p_files, r.file)
    /\ UNCHANGED <<p_fn, p_tag, p_first>>
    /\ UNCHANGED <<mainVars, procVars, waitVars, histVars, waitHist, chkVars, extVars>>

NextPatch == PatchCall

SpecPatch == InitPatch /\ [][NextPatch]_vars

(* ------------------------------------------------------------------ *)
(* One repository over repeated process_repo invocations (lines        *)
(* 569-733) and the polls that follow them (lines 533-561)             *)
(* ------------------------------------------------------------------ *)

\* process_repo invocations on the repository: the second one is the second
\* processing of nodetool-core in one run or a re-run of the orchestrator
MaxInvocations == 2

RerunTag == <<"v", "1">>

\* the databaseId GitHub gives the run started by the tag push of invocation n
RunIdOf(n) == 100 + n

RerunFrame ==
    UNCHANGED <<mainVars, procVars, waitVars, histVars, waitHist, chkVars, patchVars,
                authVars, indexVars, pollVars>>

InitRerun ==
    /\ pc = "rerun"
    /\ args \in [update_versions : BOOLEAN, no_wait_core : {FALSE}, repo : {NoRepoArg}]
    /\ version_tag = RerunTag
    /\ version = None
    /\ response = "none"
    /\ repos_to_process = REPOS
    /\ loop_i = 0
    /\ exit_code = -1
    /\ exit_reason = "running"
    /\ dirs = [r \in RepoSet |-> "ok"]
    /\ ProcIdle
    /\ WaitIdle
    /\ processed = [r \in RepoSet |-> 0]
    /\ waits_returned = {}
    /\ triggers = <<>>
    /\ chk_q = None
    /\ chk_result = -1
    /\ PatchIdle
    /\ AuthIdle
    /\ IndexIdle
    /\ PollIdle
    /\ r_inv = 1
    /\ r_pc = "patch"
    /\ r_updated = FALSE
    /\ r_files = "old"
    /\ r_head = "base"
    /\ r_main = "base"
    /\ r_tag = "none"
    /\ r_pending = {}
    /\ r_runs = <<>>
    /\ r_release = FALSE
    /\ r_result = -1

\* lines 600-638: the patch calls.  Files at the old version are changed;
\* files already at the new version still report a change when
\* update_pyproject_version finds a version line or the package scan runs
\* (lines 361, 451), and report none otherwise
R_Patch ==
    /\ r_pc = "patch"
    /\ IF args.update_versions
       THEN \E found \in BOOLEAN :
            /\ r_updated' = found
            /\ r_files' = IF found THEN "new" ELSE r_files
            /\ r_pc' = IF found THEN "commit" ELSE "tag"
       ELSE /\ r_pc' = "tag"
            /\ UNCHANGED <<r_updated, r_files>>
    /\ UNCHANGED <<r_inv, r_head, r_main, r_tag, r_pending, r_runs, r_release, r_result>>
    /\ RerunFrame

\* lines 640-690: git add, then git commit (check=False).  The commit can
\* succeed only when the staged files differ from HEAD
R_Commit ==
    /\ r_pc = "commit"
    /\ \E ok \in BOOLEAN :
        /\ ok => (r_files = "new" /\ r_head = "base")
        /\ r_head' = IF ok THEN "bump" ELSE r_head
        /\ r_pc' = IF ok THEN "push" ELSE "tag"
    /\ UNCHANGED <<r_inv, r_updated, r_files, r_main, r_tag, r_pending, r_runs,
                   r_release, r_result>>
    /\ RerunFrame

\* lines 692-706: git push origin main; on failure process_repo returns
R_Push ==
    /\ r_pc = "push"
    /\ \E ok \in BOOLEAN :
        /\ r_main' = IF ok THEN r_head ELSE r_main
        /\ r_pc' = IF ok THEN "tag" ELSE "wait"
    /\ UNCHANGED <<r_inv, r_updated, r_files, r_head, r_tag, r_pending, r_runs,
                   r_release, r_result>>
    /\ RerunFrame

\* lines 714-733: git tag -f at HEAD and git push -f of the tag; a pushed tag
\* makes GitHub start the release workflow, some time later
R_TagAndPush ==
    /\ r_pc = "tag"
    /\ \E ok \in BOOLEAN :
        /\ r_tag' = IF ok THEN r_head ELSE r_tag
        /\ r_pending' = IF ok THEN r_pending \cup {r_inv} ELSE r_pending
    /\ r_pc' = "wait"
    /\ UNCHANGED <<r_inv, r_updated, r_files, r_head, r_main, r_runs, r_release,
                   r_result>>
    /\ RerunFrame

\* GitHub: the run for a pushed tag appears at the head of `gh run list`
G_RunStarts ==
    /\ \E n \in r_pending :
        /\ r_runs' = <<Run(RerunTag, "Release", "in_progress", "", RunIdOf(n))>> \o r_runs
        /\ r_pending' = r_pending \ {n}
    /\ UNCHANGED <<r_inv, r_pc, r_updated, r_files, r_head, r_main, r_tag, r_release,
                   r_result>>
    /\ RerunFrame

\* GitHub: a run ends with success, publishing the release, or with failure
G_RunEnds ==
    /\ \E i \in 1..Len(r_runs), c \in {"success", "failure"} :
        /\ r_runs[i].status = "in_progress"
        /\ r_runs' = [r_runs EXCEPT ![i].status = "completed", ![i].conclusion = c]
        /\ r_release' = (r_release \/ c = "success")
    /\ UNCHANGED <<r_inv, r_pc, r_updated, r_files, r_head, r_main, r_tag, r_pending,
                   r_result>>
    /\ RerunFrame

\* lines 749-762: one poll of the repository by wait_for_repos; SUCCEEDED
\* ends the wait
R_Poll ==
    /\ r_pc = "wait"
    /\ \E listOk \in BOOLEAN :
        LET q == [listOk |-> listOk, runs |-> r_runs, release |-> r_release]
            result == check_workflow_completed(q, RerunTag)
        IN  /\ r_result' = result
            /\ r_pc' = IF result = SUCCEEDED THEN "done" ELSE "wait"
    /\ UNCHANGED <<r_inv, r_updated, r_files, r_head, r_main, r_tag, r_pending, r_runs,
                   r_release>>
    /\ RerunFrame

\* the next process_repo invocation on the repository, with the same tag
R_Again ==
    /\ r_pc \in {"wait", "done"}
    /\ r_inv < MaxInvocations
    /\ r_inv' = r_inv + 1
    /\ r_pc' = "patch"
    /\ r_updated' = FALSE
    /\ r_result' = -1
    /\ UNCHANGED <<r_files, r_head, r_main, r_tag, r_pending, r_runs, r_release>>
    /\ RerunFrame

NextRerun ==
    \/ R_Patch
    \/ R_Commit
    \/ R_Push
    \/ R_TagAndPush
    \/ G_RunStarts
    \/ G_RunEnds
    \/ R_Poll
    \/ R_Again

SpecRerun == InitRerun /\ [][NextRerun]_vars

(* ------------------------------------------------------------------ *)
(* Git authentication and diagnostics (lines 141-230, 249-278)         *)
(* ------------------------------------------------------------------ *)

\* everything of the orchestrator at rest, for the specifications of its parts
OrchestratorIdle ==
    /\ args = [update_versions |-> FALSE, no_wait_core |-> FALSE, repo |-> NoRepoArg]
    /\ version_tag = RerunTag
    /\ version = None
    /\ response = "none"
    /\ repos_to_process = REPOS
    /\ loop_i = 0
    /\ exit_code = -1
    /\ exit_reason = "running"
    /\ dirs = [r \in RepoSet |-> "ok"]
    /\ ProcIdle
    /\ WaitIdle
    /\ processed = [r \in RepoSet |-> 0]
    /\ waits_returned = {}
    /\ triggers = <<>>
    /\ chk_q = None
    /\ chk_result = -1
    /\ PatchIdle

\* token values, as character sequences: two long ones and a short one
TokenA == <<"a", "b", "c", "d", "e", "f", "g", "h", "i">>

TokenB == <<"r", "s", "t", "u", "v", "w", "x", "y", "z">>

TokenShort == <<"k", "l", "m">>

TokenValues == {TokenA, TokenB, TokenShort}

\* the environment: <<>> stands for a variable that is unset or empty
Envs == [GH_PAT : {<<>>, TokenA, TokenShort}, GITHUB_TOKEN : {<<>>, TokenB},
         GH_TOKEN : {<<>>, TokenA}]

\* URLs are sequences of pieces of text; a token inside a URL is spelled out
\* character by character
OriginUrls ==
    { <<"https://github.com/", "o/r", ".git">>,
      <<"git@github.com:", "o/r", ".git">>,
      <<"/srv/git/", "r">> }

\* line 146
gh_token(env) ==
    IF env.GH_PAT # <<>> THEN env.GH_PAT
    ELSE IF env.GITHUB_TOKEN # <<>> THEN env.GITHUB_TOKEN
    ELSE env.GH_TOKEN

\* str.replace(old, new) where old is one piece and new a sequence of pieces
RECURSIVE Replace(_, _, _)
Replace(text, old, new) ==
    IF text = <<>> THEN <<>>
    ELSE (IF Head(text) = old THEN new ELSE <<Head(text)>>)
         \o Replace(Tail(text), old, new)

AuthPrefix(token) == <<"https://x-access-token:">> \o token \o <<"@github.com/">>

\* lines 168-180: the URL set-url is given, <<>> for the unexpected format
auth_url(remote_url, token) ==
    IF remote_url # <<>> /\ Head(remote_url) = "https://github.com/"
    THEN Replace(remote_url, "https://github.com/", AuthPrefix(token))
    ELSE IF remote_url # <<>> /\ Head(remote_url) = "git@github.com:"
    THEN AuthPrefix(token)
         \o Replace(Replace(remote_url, "git@github.com:", <<>>), ".git", <<>>)
         \o <<".git">>
    ELSE <<>>

\* line 223
Masked(val) ==
    IF Len(val) > 8
    THEN SubSeq(val, 1, 4) \o <<"...">> \o SubSeq(val, Len(val) - 3, Len(val))
    ELSE <<"***">>

AuthFrame ==
    UNCHANGED <<mainVars, procVars, waitVars, histVars, waitHist, chkVars, patchVars,
                rerunVars, indexVars, pollVars>>

InitAuth ==
    /\ pc = "auth"
    /\ OrchestratorIdle
    /\ RerunIdle
    /\ IndexIdle
    /\ PollIdle
    /\ a_inv = 1
    /\ a_pc = "diag"
    /\ a_env \in Envs
    /\ a_url \in OriginUrls
    /\ a_log = {}
    /\ a_ret = "none"

\* lines 194-230: `git remote -v` (remotesOk: its exit status is 0) and the
\* environment variables
print_git_diagnostics ==
    /\ a_pc = "diag"
    /\ \E remotesOk \in BOOLEAN :
        a_log' = a_log
            \cup (IF remotesOk THEN {<<"  remotes: origin ">> \o a_url} ELSE {})
            \cup {<<"  ", v, ": ">> \o Masked(a_env[v]) :
                    v \in {w \in {"GH_PAT", "GITHUB_TOKEN"} : a_env[w] # <<>>}}
    /\ a_pc' = "auth"
    /\ UNCHANGED <<a_inv, a_env, a_url, a_ret>>
    /\ AuthFrame

\* lines 141-191, with the command echo of run_command (line 258); getOk:
\* `git remote get-url origin` ended with status 0
setup_git_auth ==
    /\ a_pc = "auth"
    /\ LET token == gh_token(a_env) IN
       IF token = <<>>
       THEN /\ a_ret' = "False: no token"
            /\ UNCHANGED <<a_url, a_log>>
       ELSE \E getOk \in BOOLEAN :
            LET echo1 == <<"Running: git remote get-url origin">>
                new == auth_url(a_url, token)
            IN
            IF ~getOk
            THEN /\ a_ret' = "False: no remote URL"
                 /\ a_log' = a_log \cup {echo1}
                 /\ UNCHANGED a_url
            ELSE IF new = <<>>
            THEN /\ a_ret' = "False: unexpected format"
                 /\ a_log' = a_log \cup {echo1, <<"Original remote URL: ">> \o a_url,
                                         <<"Unexpected remote URL format: ">> \o a_url}
                 /\ UNCHANGED a_url
            ELSE /\ a_ret' = "True"
                 /\ a_log' = a_log \cup {echo1, <<"Original remote URL: ">> \o a_url,
                                         <<"Running: git remote set-url origin ">> \o new}
                 /\ a_url' = new
    /\ a_pc' = "done"
    /\ UNCHANGED <<a_inv, a_env>>
    /\ AuthFrame

\* the next process_repo invocation on the repository: in the same run (same
\* environment) or in a later run of the orchestrator (any environment)
A_Again ==
    /\ a_pc = "done"
    /\ a_inv < MaxInvocations
    /\ a_inv' = a_inv + 1
    /\ a_env' \in Envs
    /\ a_pc' = "diag"
    /\ UNCHANGED <<a_url, a_log, a_ret>>
    /\ AuthFrame

NextAuth ==
    \/ print_git_diagnostics
    \/ setup_git_auth
    \/ A_Again

SpecAuth == InitAuth /\ [][NextAuth]_vars

(* ------------------------------------------------------------------ *)
(* The package index (build_index.py, generate_metadata.py,            *)
(* registry_utils.py)                                                  *)
(* ------------------------------------------------------------------ *)

\* longest release list get_releases returns for the package under study
MaxReleases == 2

\* build_index runs in one behaviour
MaxBuilds == 2

\* most assets of one release
MaxAssets == 2

DigitValue(c) ==
    CASE c = "0" -> 0 [] c = "1" -> 1 [] c = "2" -> 2 [] c = "3" -> 3 [] c = "4" -> 4
      [] c = "5" -> 5 [] c = "6" -> 6 [] c = "7" -> 7 [] c = "8" -> 8 [] c = "9" -> 9

\* tag_name.lstrip('v')
RECURSIVE LStripV(_)
LStripV(t) == IF t # <<>> /\ Head(t) = "v" THEN LStripV(Tail(t)) ELSE t

\* s.split('-')[0]
BeforeDash(t) == SubSeq(t, 1, FirstStop(t, 1, {"-"}) - 1)

\* the release segment of a version string: dot-separated numbers, as a
\* sequence of naturals; <<>> when the text is no such version
RECURSIVE ReleaseSegment(_, _, _)
ReleaseSegment(t, acc, inNumber) ==
    IF t = <<>> THEN (IF inNumber THEN <<acc>> ELSE <<>>)
    ELSE IF IsDigit(Head(t))
         THEN ReleaseSegment(Tail(t), 10 * acc + DigitValue(Head(t)), TRUE)
         ELSE <<>>

RECURSIVE SplitDots(_)
\* the text cut at its dots
SplitDots(t) ==
    LET d == FirstStop(t, 1, {"."}) IN
    IF d > Len(t) THEN <<t>>
    ELSE <<SubSeq(t, 1, d - 1)>> \o SplitDots(SubSeq(t, d + 1, Len(t)))

\* packaging.version.parse on dot-separated numbers: the release tuple
\* without trailing zeros (1.0 equals 1.0.0), <<-1>> for InvalidVersion
RECURSIVE StripZeros(_)
StripZeros(r) ==
    IF r # <<>> /\ r[Len(r)] = 0 THEN StripZeros(SubSeq(r, 1, Len(r) - 1)) ELSE r

VersionParse(t) ==
    LET parts == SplitDots(t)
        nums == [i \in 1..Len(parts) |-> ReleaseSegment(parts[i], 0, FALSE)]
    IN  IF \E i \in 1..Len(nums) : nums[i] = <<>>
        THEN <<-1>>
        ELSE StripZeros([i \in 1..Len(nums) |-> nums[i][1]])

\* registry_utils.py lines 166-173; <<-1>> stands for None
parse_version(tag_name) == VersionParse(BeforeDash(LStripV(tag_name)))

\* Version.__lt__ on release tuples
RECURSIVE VersionLess(_, _)
VersionLess(a, b) ==
    IF b = <<>> THEN FALSE
    ELSE IF a = <<>> THEN TRUE
    ELSE IF Head(a) # Head(b) THEN Head(a) < Head(b)
    ELSE VersionLess(Tail(a), Tail(b))

\* list.sort(key=version, reverse=True): descending, and stable, so entries
\* with equal versions keep their order
RECURSIVE InsertDesc(_, _)
InsertDesc(sorted, e) ==
    IF sorted = <<>> THEN <<e>>
    ELSE IF VersionLess(Head(sorted).v, e.v) THEN <<e>> \o sorted
    ELSE <<Head(sorted)>> \o InsertDesc(Tail(sorted), e)

RECURSIVE SortDesc(_, _)
SortDesc(done, todo) ==
    IF todo = <<>> THEN done
    ELSE SortDesc(InsertDesc(done, Head(todo)), Tail(todo))

\* asset file names, as sequences of pieces of text
WheelAny == <<"p-", "py3", "-none-any", ".whl">>

WheelMac == <<"p-", "cp311", "-macos", ".whl">>

Sdist == <<"p", ".tar.gz">>

\* name.endswith(".whl")
EndsWithWhl(name) == name # <<>> /\ name[Len(name)] = ".whl"

\* browser_download_url of an asset of the release tagged tag
AssetUrl(tag, name) == <<"https://github.com/o/r/releases/download/">> \o tag \o <<"/">> \o name

Release(draft, prerelease, tag, names) ==
    [draft |-> draft, prerelease |-> prerelease, tag_name |-> tag,
     assets |-> [i \in 1..Len(names) |->
                    [name |-> names[i], browser_download_url |-> AssetUrl(tag, names[i])]]]

ReleaseTags ==
    { <<"v", "2">>, <<"v", "1", "0">>, <<"v", "2", "-", "r">>, <<"n">> }

AssetLists == { <<WheelMac, Sdist>>, <<WheelAny, WheelMac>> }

Releases ==
    { Release(f[1], f[2], t, a) :
        f \in {<<FALSE, FALSE>>, <<TRUE, FALSE>>, <<FALSE, TRUE>>},
        t \in ReleaseTags, a \in AssetLists }

NoFilter == "<none>"

WheelFilters == {NoFilter, "-macos"}

\* build_index.py lines 139-140: wheel_filter and wheel_filter not in name
FilteredOut(name, wheel_filter) ==
    wheel_filter # NoFilter /\ wheel_filter \notin Range(name)

RECURSIVE Flatten(_)
Flatten(ss) == IF ss = <<>> THEN <<>> ELSE Head(ss) \o Flatten(Tail(ss))

\* faulty variant: prereleases are listed
generate_package_page_KeepsPrereleases(releases, wheel_filter) ==
    LET Valid(r) == ~r.draft /\ parse_version(r.tag_name) # <<-1>>
        valid == SelectSeq(releases, Valid)
        keyed == [i \in 1..Len(valid) |->
                    [v |-> parse_version(valid[i].tag_name), release |-> valid[i]]]
        sorted == SortDesc(<<>>, keyed)
        WheelsOf(e) ==
            LET Wanted(a) == EndsWithWhl(a.name) /\ ~FilteredOut(a.name, wheel_filter)
                as == SelectSeq(e.release.assets, Wanted)
            IN  [k \in 1..Len(as) |->
                    [url |-> as[k].browser_download_url, filename |-> as[k].name,
                     version |-> e.v]]
        wheels == Flatten([i \in 1..Len(sorted) |-> WheelsOf(sorted[i])])
    IN  [wheels |-> wheels, count |-> Len(wheels)]

\* build_index.py lines 114-191: the links written to the page, in order, and
\* the returned count
generate_package_page(releases, wheel_filter) ==
    LET Valid(r) == ~(r.draft \/ r.prerelease) /\ parse_version(r.tag_name) # <<-1>>
        valid == SelectSeq(releases, Valid)
        keyed == [i \in 1..Len(valid) |->
                    [v |-> parse_version(valid[i].tag_name), release |-> valid[i]]]
        sorted == SortDesc(<<>>, keyed)
        WheelsOf(e) ==
            LET Wanted(a) == EndsWithWhl(a.name) /\ ~FilteredOut(a.name, wheel_filter)
                as == SelectSeq(e.release.assets, Wanted)
            IN  [k \in 1..Len(as) |->
                    [url |-> as[k].browser_download_url, filename |-> as[k].name,
                     version |-> e.v]]
        wheels == Flatten([i \in 1..Len(sorted) |-> WheelsOf(sorted[i])])
    IN  [wheels |-> wheels, count |-> Len(wheels)]

\* the packages of index.json, by the name _load_packages gives them
IndexPackages == {"nodetool-base", "nodetool-core"}

\* the package whose release list varies in SpecPage
PagePackage == "nodetool-base"

NoPage == [exists |-> FALSE, wheels |-> <<>>]

\* build_index.py lines 243-250
PackagesToBuild(package_filter) ==
    IF package_filter = NoFilter THEN IndexPackages
    ELSE {package_filter} \cap IndexPackages

\* faulty variant: the prior manifest is never read
ExistingCounts_Never(force_rebuild, package_filter, manifest) ==
    [p \in IndexPackages |-> -1]

\* build_index.py lines 257-268: the counts taken from packages.json, -1 for
\* a package that gets none
ExistingCounts(force_rebuild, package_filter, manifest) ==
    [p \in IndexPackages |->
        IF ~force_rebuild /\ package_filter # NoFilter
           /\ p \notin PackagesToBuild(package_filter)
        THEN manifest[p]
        ELSE -1]

\* str.count of the piece in the text
Occurrences(text, piece) == Cardinality({i \in 1..Len(text) : text[i] = piece})

RECURSIVE PageWhlCount(_)
\* generate_metadata.py line 41: content.count('.whl') on a page, whose every
\* link holds the wheel URL in href and the file name as its text (line 178)
PageWhlCount(wheels) ==
    IF wheels = <<>> THEN 0
    ELSE Occurrences(Head(wheels).url, ".whl") + Occurrences(Head(wheels).filename, ".whl")
         + PageWhlCount(Tail(wheels))

IndexFrame ==
    UNCHANGED <<mainVars, procVars, waitVars, histVars, waitHist, chkVars, patchVars,
                rerunVars, authVars, pollVars>>

\* build_index.py lines 235-289
X_BuildIndex ==
    /\ x_pc = "build"
    /\ x_builds < MaxBuilds
    /\ \E force_rebuild \in BOOLEAN,
          package_filter \in {NoFilter, "not-a-package"} \cup IndexPackages :
        LET to_build == PackagesToBuild(package_filter)
            existing == ExistingCounts(force_rebuild, package_filter, x_manifest)
            page(p) == generate_package_page(x_releases[p], x_registry[p])
        IN
        /\ x_args' = [force_rebuild |-> force_rebuild, package_filter |-> package_filter]
        /\ IF to_build = {}
           THEN UNCHANGED <<x_pages, x_returned, x_counts>>
           ELSE /\ x_pages' = [p \in IndexPackages |->
                                IF p \in to_build
                                THEN [exists |-> TRUE, wheels |-> page(p).wheels]
                                ELSE x_pages[p]]
                /\ x_returned' = [p \in IndexPackages |->
                                    IF p \in to_build THEN page(p).count
                                    ELSE x_returned[p]]
                /\ x_counts' = [p \in IndexPackages |->
                                    IF p \in to_build THEN page(p).count
                                    ELSE IF existing[p] # -1 THEN existing[p]
                                    ELSE 0]
    /\ x_builds' = x_builds + 1
    /\ x_pc' = "manifest"
    /\ UNCHANGED <<x_registry, x_releases, x_manifest>>
    /\ IndexFrame

\* generate_metadata.py lines 30-57; -1 for a package without an entry
X_GenerateManifest ==
    /\ x_pc = "manifest"
    /\ x_manifest' = [p \in IndexPackages |->
                        IF x_pages[p].exists THEN PageWhlCount(x_pages[p].wheels)
                        ELSE -1]
    /\ x_pc' = "build"
    /\ UNCHANGED <<x_builds, x_args, x_registry, x_releases, x_pages, x_returned,
                   x_counts>>
    /\ IndexFrame

IndexStart ==
    /\ OrchestratorIdle
    /\ RerunIdle
    /\ AuthIdle
    /\ PollIdle
    /\ x_pc = "build"
    /\ x_builds = 0
    /\ x_args = [force_rebuild |-> FALSE, package_filter |-> NoFilter]
    /\ x_manifest = [p \in IndexPackages |-> -1]
    /\ x_pages = [p \in IndexPackages |-> NoPage]
    /\ x_returned = [p \in IndexPackages |-> -1]
    /\ x_counts = [p \in IndexPackages |-> -1]

\* one build of a package whose release list is any list within the bounds
InitPage ==
    /\ pc = "page"
    /\ IndexStart
    /\ \E rs \in SeqsUpTo(Releases, MaxReleases), f \in WheelFilters :
        /\ x_releases = [p \in IndexPackages |-> IF p = PagePackage THEN rs ELSE <<>>]
        /\ x_registry = [p \in IndexPackages |-> IF p = PagePackage THEN f ELSE NoFilter]

NextPage == X_BuildIndex

SpecPage == InitPage /\ [][NextPage]_vars

\* the release lists of the packages in the runs of both scripts
IndexReleaseLists ==
    { <<>>,
      <<Release(FALSE, FALSE, <<"v", "2">>, <<WheelAny>>)>>,
      <<Release(FALSE, FALSE, <<"v", "2">>, <<WheelAny, WheelMac>>),
        Release(FALSE, FALSE, <<"v", "1", "0">>, <<WheelMac, Sdist>>)>> }

InitIndex ==
    /\ pc = "index"
    /\ IndexStart
    /\ x_releases \in [IndexPackages -> IndexReleaseLists]
    /\ x_registry \in [IndexPackages -> WheelFilters]

NextIndex ==
    \/ X_BuildIndex
    \/ X_GenerateManifest

SpecIndex == InitIndex /\ [][NextIndex]_vars

(* ------------------------------------------------------------------ *)
(* Polling external releases (poll_external_releases.py)               *)
(* ------------------------------------------------------------------ *)

\* runs of poll_external_releases.py in one behaviour
MaxPolls == 2

\* repository ids as pieces of text: owner, "/", then the repository name
RepoId(owner, name) == <<owner, "/">> \o name

\* the packages of index.json before the first run: names are unique
RegistryEntry(name, repo_id, ver, date) ==
    [name |-> name, repo_id |-> repo_id, version |-> ver, updated_at |-> date]

InternalPackage ==
    RegistryEntry(<<"Base">>, RepoId("nodetool-ai", <<"nodetool-", "base">>), <<"v", "1">>, "d0")

ExternalPackage ==
    RegistryEntry(<<"Ext">>, RepoId("carol", <<"nodetool-", "ext">>), <<"v", "1">>, "d0")

\* what the repository search can return, in the order it returns them
PollCandidates ==
    << RepoId("carol", <<"nodetool-", "ext">>),
       RepoId("alice", <<"nodetool-", "foo">>),
       RepoId("bob", <<"nodetool-", "foo">>),
       RepoId("alice", <<"nodetool-", "bar", "-", "baz">>) >>

\* the latest release of a repository: none, or a tag, a date and whether it
\* holds a wheel
NoRelease == [tag_name |-> <<>>, published_at |-> "", wheels |-> FALSE, exists |-> FALSE]

LatestReleases ==
    {NoRelease}
    \cup { [tag_name |-> t, published_at |-> d, wheels |-> w, exists |-> TRUE] :
            t \in {<<"v", "1">>, <<"v", "2">>}, d \in {"d1"}, w \in BOOLEAN }

\* repo_id.split("/")[1]
RepoName(repo_id) ==
    LET rest == SubSeq(repo_id, FirstStop(repo_id, 1, {"/"}) + 1, Len(repo_id))
    IN  SubSeq(rest, 1, FirstStop(rest, 1, {"/"}) - 1)

\* str.replace("-", " ").title() piece by piece
TitlePiece(piece) ==
    CASE piece = "-" -> " "
      [] piece = "foo" -> "Foo"
      [] piece = "bar" -> "Bar"
      [] piece = "baz" -> "Baz"
      [] piece = "ext" -> "Ext"
      [] piece = "base" -> "Base"
      [] OTHER -> piece

\* poll_external_releases.py lines 44-61
create_package_entry(repo_id, release) ==
    LET repo_name == RepoName(repo_id)
        display_name ==
            IF repo_name # <<>> /\ Head(repo_name) = "nodetool-"
            THEN [i \in 1..(Len(repo_name) - 1) |-> TitlePiece(repo_name[i + 1])]
            ELSE repo_name
    IN  RegistryEntry(display_name, repo_id, release.tag_name, release.published_at)

\* registry_utils.py lines 152-159
get_external_repos(registry) ==
    { registry[i].repo_id : i \in { k \in 1..Len(registry) :
                                      /\ registry[k].repo_id # <<>>
                                      /\ Head(registry[k].repo_id) # "nodetool-ai" } }

\* poll_external_releases.py lines 19-42: the first package of the repository
\* takes the tag and the date of the release
update_package_info(registry, repo_id, release) ==
    LET hits == {k \in 1..Len(registry) : registry[k].repo_id = repo_id} IN
    IF hits = {} THEN registry
    ELSE LET k == CHOOSE m \in hits : \A n \in hits : m <= n IN
         [registry EXCEPT
            ![k].version = IF release.tag_name # <<>> /\ release.tag_name # @
                           THEN release.tag_name ELSE @,
            ![k].updated_at = IF release.published_at # "" THEN release.published_at ELSE @]

RECURSIVE AppendDiscovered(_, _, _, _)
\* poll_external_releases.py lines 119-125 over the discovered repositories
\* from position i on
AppendDiscovered(registry, external_repos, found, i) ==
    IF i > Len(PollCandidates) THEN registry
    ELSE LET repo_id == PollCandidates[i] IN
         IF i \in DOMAIN found /\ repo_id \notin external_repos
            /\ found[i].exists /\ found[i].wheels
         THEN AppendDiscovered(Append(registry, create_package_entry(repo_id, found[i])),
                               external_repos, found, i + 1)
         ELSE AppendDiscovered(registry, external_repos, found, i + 1)

PollFrame ==
    UNCHANGED <<mainVars, procVars, waitVars, histVars, waitHist, chkVars, patchVars,
                rerunVars, authVars, indexVars>>

\* poll_external_releases.py lines 91-138: one run of main. latest is the
\* latest release of the known external repository, found maps the positions
\* of the discovered repositories to their latest release
Poll ==
    /\ pc = "poll"
    /\ q_polls < MaxPolls
    /\ \E latest \in LatestReleases, discovered \in SUBSET (1..Len(PollCandidates)) :
       \E found \in [discovered -> LatestReleases \ {NoRelease}] :
        LET external_repos == get_external_repos(q_registry)
            updated ==
                IF ExternalPackage.repo_id \in external_repos
                   /\ latest.exists /\ latest.wheels
                THEN update_package_info(q_registry, ExternalPackage.repo_id, latest)
                ELSE q_registry
        IN  q_registry' = AppendDiscovered(updated, external_repos, found, 1)
    /\ q_polls' = q_polls + 1
    /\ PollFrame

InitPoll ==
    /\ pc = "poll"
    /\ OrchestratorIdle
    /\ RerunIdle
    /\ AuthIdle
    /\ IndexIdle
    /\ q_polls = 0
    /\ q_registry \in { <<InternalPackage>>, <<InternalPackage, ExternalPackage>> }

NextPoll == Poll

SpecPoll == InitPoll /\ [][NextPoll]_vars

(* ------------------------------------------------------------------ *)
(* Properties                                                          *)
(* ------------------------------------------------------------------ *)

\* the for loop of the current poll pass has finished
PassDone == InWait /\ wpc = "poll" /\ widx > Len(repos_to_wait)

\* the repositories of the waiting set whose directory exists
Present(rs) == {r \in Range(rs) : dirs[r] # "missing"}

\* a full run: no --repo
FullRun == args.repo = NoRepoArg

\* C1: wait_for_repos polls only until one pass finds every repository of the
\* waiting set terminal (SUCCEEDED or FAILED): the step after such a pass ends
\* the polling, with exit status 1 if a repository is FAILED and with a normal
\* return if all are SUCCEEDED.
C1_StopsWhenAllTerminal ==
    [][ (PassDone /\ PENDING \notin pass_results)
        => IF FAILED \in pass_results
           THEN pc' = "exit" /\ exit_code' = 1
           ELSE wpc' = "ret" ]_vars

\* the release run the poller is specified to look at: the first run of the
\* list on the tag whose workflow is a release workflow (0 when there is none
\* or the query failed)
SelectedIndex(q, tag) ==
    LET hits == { i \in 1..Len(q.runs) :
                    /\ q.runs[i].headBranch = tag
                    /\ q.runs[i].workflowName \in {"Build and Publish Wheel", "Release"} }
    IN  IF ~q.listOk \/ hits = {} THEN 0
        ELSE CHOOSE i \in hits : \A j \in hits : i <= j

\* the classification C2 states
C2_Expected(q, tag) ==
    LET i == SelectedIndex(q, tag) IN
    IF i = 0 THEN (IF q.release THEN 0 ELSE 1)
    ELSE IF q.runs[i].status = "completed" /\ q.runs[i].conclusion = "success" THEN 0
    ELSE IF q.runs[i].status = "completed"
            /\ q.runs[i].conclusion \in {"failure", "cancelled"} THEN 2
    ELSE 1

\* C2: check_workflow_completed returns SUCCEEDED (0) exactly for a selected run
\* completed with success or for no matching run and an existing release,
\* FAILED (2) exactly for a selected run completed with failure or cancelled,
\* and PENDING (1) in every other case.
C2_Classification ==
    pc = "checked" => chk_result = C2_Expected(chk_q, version_tag)

\* C3: in a full run without --no-wait-core, nodetool-core is processed first
\* and process_repo runs on no other repository before wait_for_repos on
\* nodetool-core alone has returned; if that wait exits the process, no other
\* repository is ever touched.
C3_CoreFirst ==
    (FullRun /\ ~args.no_wait_core) =>
        /\ \A r \in RepoSet \ {CORE} :
            processed[r] > 0 => (processed[CORE] > 0 /\ "core" \in waits_returned)
        /\ (cur # "" /\ cur # CORE) => "core" \in waits_returned
        /\ pc = "core_wait" => (repos_to_wait = <<CORE>> /\ processed[CORE] = 1)
        /\ (pc = "exit" /\ "core" \notin waits_returned) =>
            \A r \in RepoSet \ {CORE} : processed[r] = 0

C3_Witness ==
    /\ FullRun
    /\ ~args.no_wait_core
    /\ pc = "loop_process"
    /\ cur # CORE
    /\ inv.tag
    /\ "core" \in waits_returned

\* C4: within one orchestrator run process_repo is invoked at most once per
\* repository, in particular never twice for nodetool-core, and exactly once
\* for every selected repository by the time Step 2 begins.
C4_ProcessedOnce ==
    /\ \A r \in RepoSet : processed[r] <= 1
    /\ pc \in {"full_wait", "step3"} =>
        \A r \in Range(repos_to_process) : processed[r] = 1

\* C5: the registry workflow is triggered at most once and only after
\* wait_for_repos over the full selected set has returned, which it does only
\* from a pass that classified every selected repository it polled as
\* SUCCEEDED; exit status 0 requires that return and a successful trigger, and
\* a failed trigger gives exit status 1.
C5_TriggerOnceAfterWait ==
    /\ Len(triggers) <= 1
    /\ Len(triggers) = 1 => "full" \in waits_returned
    /\ (pc = "full_wait" /\ wpc = "ret") =>
        /\ repos_to_wait = repos_to_process
        /\ polled = Present(repos_to_wait)
        /\ pass_results \subseteq {SUCCEEDED}
    /\ exit_code = 0 => ("full" \in waits_returned /\ triggers = <<TRUE>>)
    /\ triggers = <<FALSE>> => (pc = "exit" /\ exit_code = 1)

C5_Witness ==
    /\ pc = "exit"
    /\ exit_code = 0
    /\ triggers = <<TRUE>>
    /\ FullRun
    /\ \A r \in RepoSet : dirs[r] = "ok"

\* steps wait_for_repos has left when every coming pass leaves a repository
\* incomplete
StepsLeft ==
    ((MAX_WAIT - elapsed) \div POLL_INTERVAL) * (Len(repos_to_wait) + 2) + 1
        - (IF wpc = "poll" THEN widx ELSE 0)

C6_Budget ==
    /\ (InWait /\ wpc = "poll") =>
        /\ elapsed < MAX_WAIT
        /\ elapsed = (passes - 1) * POLL_INTERVAL
    /\ (InWait /\ wpc = "test") => (elapsed = passes * POLL_INTERVAL /\ elapsed <= MAX_WAIT)
    /\ exit_reason = "timeout" =>
        /\ passes = 60
        /\ passes = MAX_WAIT \div POLL_INTERVAL
        /\ elapsed = 1800
        /\ exit_code = 1
    /\ (InWait /\ wpc \in {"test", "poll"}) => StepsLeft >= 0

C6_Progress ==
    (InWait /\ wpc \in {"test", "poll"} /\ pc' = pc /\ wpc' \in {"test", "poll"})
        => StepsLeft' < StepsLeft

\* C6: wait_for_repos always terminates: every step of the loop lowers the
\* number of steps left; it never polls once elapsed has reached MAX_WAIT;
\* elapsed advances by 30 per pass; and the timeout is reached after exactly
\* MAX_WAIT / POLL_INTERVAL = 60 passes with elapsed = 1800 and exit status 1.
C6_Terminates == []C6_Budget /\ [][C6_Progress]_vars

C6_Witness ==
    /\ pc = "exit"
    /\ exit_reason = "timeout"
    /\ passes = 60
    /\ Len(repos_to_wait) = NumRepos

C8_AnySuccessRunCompletes ==
    /\ (last_poll # None /\ last_poll.contains) => last_poll.result = SUCCEEDED
    /\ (PassDone /\ passes = 1 /\ first_contains) => all_completed

C8_FirstPoll ==
    /\ (last_poll # None /\ last_poll.selected) => last_poll.result = SUCCEEDED
    /\ (InWait /\ wpc = "poll" /\ passes = 1 /\ first_selected) =>
        (all_completed /\ ~any_failed)
    /\ (InWait /\ first_selected) => (passes = 1 /\ elapsed = 0)

C8_ReturnsAtOnce ==
    (PassDone /\ passes = 1 /\ first_selected) =>
        (wpc' = "ret" /\ elapsed' = 0 /\ pc' = pc)

\* C8 (amended): if the first run of the list on the tag that belongs to a
\* release workflow is completed with success, the poller reports the
\* repository complete on the first poll; when this holds for every repository
\* of the waiting set, wait_for_repos returns after the first pass with
\* elapsed = 0, without sleeping.
C8_SelectedRunCompletes == []C8_FirstPoll /\ [][C8_ReturnsAtOnce]_vars

C8_Witness ==
    /\ pc = "full_wait"
    /\ wpc = "ret"
    /\ first_selected
    /\ passes = 1
    /\ elapsed = 0
    /\ Len(repos_to_wait) = NumRepos

\* C9: when the run-list query fails, check_workflow_completed returns
\* SUCCEEDED if the release for the tag exists and PENDING otherwise, never
\* FAILED.
C9_QueryFailureFallback ==
    (pc = "checked" /\ ~chk_q.listOk) =>
        /\ chk_result = (IF chk_q.release THEN SUCCEEDED ELSE PENDING)
        /\ chk_result # FAILED

C9_Witness ==
    /\ pc = "checked"
    /\ ~chk_q.listOk
    /\ chk_q.release
    /\ chk_result = SUCCEEDED

\* C10: when the version-bump commit is created and its push to main fails,
\* process_repo stops: it creates no tag and pushes no tag in that invocation
\* and returns without raising.
C10_PushFailureSkipsTag ==
    (inv.commit = "ok" /\ inv.push_main = "failed") =>
        /\ InProcess
        /\ ppc = "ret"
        /\ ~inv.tag
        /\ inv.push_tag = "no"
        /\ exit_code = -1

C10_Witness ==
    /\ InProcess
    /\ ppc = "ret"
    /\ inv.commit = "ok"
    /\ inv.push_main = "failed"
    /\ cur # CORE

\* the step after process_repo returned inside the Step 1b loop is the next
\* iteration, and every iteration calls process_repo on its repository
LoopGoesOn ==
    /\ (pc = "loop_process" /\ ppc = "ret") =>
        (pc' = "step1b" /\ loop_i' = loop_i + 1 /\ exit_code' = -1)
    /\ (pc = "step1b" /\ loop_i <= Len(repos_to_process)) =>
        (pc' = "loop_process" /\ cur' = repos_to_process[loop_i] /\ ppc' = "enter")

C11_TagPushFailureState ==
    inv.push_tag = "failed" =>
        /\ InProcess
        /\ ppc = "ret"
        /\ exit_code = -1
        /\ exit_reason = "running"

\* C11: a failed tag push neither raises nor exits: process_repo is at its
\* normal return with the process running, and in the Step 1b loop the
\* orchestrator goes on to call process_repo on the next repository.
C11_TagPushFailureContinues ==
    []C11_TagPushFailureState /\ [][LoopGoesOn]_vars

C11_Witness ==
    /\ pc = "loop_process"
    /\ ppc = "ret"
    /\ inv.push_tag = "failed"
    /\ loop_i < Len(repos_to_process)

C12_BrokenDirState ==
    (InProcess /\ dirs[cur] # "ok") =>
        /\ inv = NoInv
        /\ files_updated = FALSE
        /\ ppc \in {"enter", "ret"}
        /\ exit_code = -1

\* C12: on a repository whose directory is missing or is no git working copy
\* process_repo runs no authentication, patch, stage, commit, push or tag
\* command and returns normally, and the Step 1b loop continues with the next
\* repository.
C12_BrokenDirSkipped ==
    []C12_BrokenDirState /\ [][LoopGoesOn]_vars

C12_Witness ==
    /\ pc = "loop_process"
    /\ loop_i = 2
    /\ dirs[repos_to_process[1]] # "ok"
    /\ cur = repos_to_process[2]
    /\ inv.tag

\* C13: for a version tag that does not start with "v" the orchestrator asks,
\* and an answer other than y/yes (in any case) exits with status 1 before any
\* repository was processed, waited for or the registry triggered; it goes on
\* only on y/yes.
C13_DeclineExitsBeforeMutation ==
    /\ exit_reason = "declined" =>
        /\ pc = "exit"
        /\ exit_code = 1
        /\ ~StartsWithV(version_tag)
        /\ response \in Responses \ {"y", "Y", "yes"}
        /\ \A r \in RepoSet : processed[r] = 0
        /\ cur = ""
        /\ inv = NoInv
        /\ wpc = "idle"
        /\ waits_returned = {}
        /\ triggers = <<>>
    /\ (pc = "select" /\ ~StartsWithV(version_tag)) => response \in {"y", "Y", "yes"}
    /\ (pc = "select" /\ StartsWithV(version_tag)) => response = "none"
    /\ (~StartsWithV(version_tag) /\ pc \notin {"start", "select"}
            /\ exit_reason # "declined") => response = "none"

C13_Witness ==
    /\ exit_reason = "declined"
    /\ response = "n"
    /\ args.update_versions
    /\ FullRun

\* C14: without --update-versions process_repo patches no file, stages
\* nothing, makes no commit and no push to main; the git commands it runs are
\* the remote-URL rewrite, the tag creation and the tag push.
C14_NoUpdateNoCommit ==
    ~args.update_versions =>
        /\ inv.patch = "no"
        /\ ~inv.stage
        /\ inv.commit = "no"
        /\ inv.push_main = "no"
        /\ files_updated = FALSE
        /\ ppc \notin {"stage", "commit", "push"}

C14_Witness ==
    /\ ~args.update_versions
    /\ InProcess
    /\ ppc = "ret"
    /\ inv.auth
    /\ inv.tag
    /\ inv.push_tag = "ok"

\* C15: with --repo X for a known X, process_repo and wait_for_repos run on X
\* only; with an unknown X the process exits with status 1 before any
\* repository is touched.
C15_SingleRepo ==
    /\ args.repo \in RepoSet =>
        /\ \A r \in RepoSet \ {args.repo} : processed[r] = 0
        /\ cur \in {"", args.repo}
        /\ pc \notin {"core_process", "core_wait"}
        /\ InWait => repos_to_wait = <<args.repo>>
        /\ "core" \notin waits_returned
        /\ pc \in {"full_wait", "step3"} => processed[args.repo] = 1
    /\ args.repo \notin (RepoSet \cup {NoRepoArg}) =>
        /\ pc \in {"start", "select", "exit"}
        /\ pc = "exit" => exit_code = 1
        /\ \A r \in RepoSet : processed[r] = 0
        /\ cur = ""
        /\ wpc = "idle"
        /\ triggers = <<>>

C15_Witness ==
    /\ args.repo = REPOS[2]
    /\ pc = "full_wait"
    /\ wpc = "ret"
    /\ processed[REPOS[2]] = 1
    /\ processed[CORE] = 0

\* C16: a full run processes the main application repository "nodetool":
\* when Step 2 begins, the list the orchestrator iterates (REPOS) holds it.
C16_NodetoolProcessed ==
    (FullRun /\ pc = "full_wait") =>
        /\ "nodetool" \in Range(ALL_REPOS)
        /\ repos_to_process = REPOS

\* C17: for every patch function and every file, the content after the
\* second application with the same target is the content after the first.
C17_Idempotent ==
    Len(p_files) = 2 => p_files[2] = p_files[1]

C17_Witness ==
    /\ Len(p_files) = 2
    /\ p_fn = "update_git_package_refs"
    /\ p_rets[1].ret = "True"
    /\ p_files[1] # p_first
    /\ p_files[2] = p_files[1]

\* C18: a patch function returns False and writes nothing when the file does
\* not exist, and the second of two consecutive calls with the same target
\* returns False and writes nothing.
C18_NoOpWhenNothingToChange ==
    /\ (Len(p_rets) >= 1 /\ ~p_first.exists) =>
        (p_rets[1].ret = "False" /\ ~p_rets[1].wrote)
    /\ (Len(p_rets) = 2 /\ p_rets[1].ret # "raised") =>
        (p_rets[2].ret = "False" /\ ~p_rets[2].wrote)

VersionLineIndexes(f) ==
    {i \in 1..Len(f.lines) : f.lines[i].kind = "version" /\ f.lines[i].val # <<>>}

\* C19: update_pyproject_version sets the first `version = "..."` line to the
\* target, keeping its leading whitespace, and leaves every other line as it
\* was.
C19_OnlyFirstVersionLine ==
    (p_fn = "update_pyproject_version" /\ Len(p_files) >= 1 /\ p_first.exists) =>
        LET hits == VersionLineIndexes(p_first)
            after == p_files[1].lines
        IN  /\ Len(after) = Len(p_first.lines)
            /\ \A i \in 1..Len(after) :
                IF i \in hits /\ \A k \in hits : i <= k
                THEN after[i] = [p_first.lines[i] EXCEPT !.val = DropFirst(p_tag)]
                ELSE after[i] = p_first.lines[i]

IsCoreSpecifier(l) == l.kind = "dep" /\ l.q = "\"" /\ IsPrefix(PkgCore, l.pkg)

\* C20: update_nodetool_core_dependency leaves every name declaration line as
\* it was, rewrites every other double-quoted string that begins with
\* nodetool-core to "nodetool-core==<version>", and changes nothing else.
C20_NameLineKept ==
    (p_fn = "update_nodetool_core_dependency" /\ Len(p_files) >= 1 /\ p_first.exists) =>
        LET after == p_files[1].lines IN
        /\ Len(after) = Len(p_first.lines)
        /\ \A i \in 1..Len(after) :
            LET l == p_first.lines[i] IN
            IF IsCoreSpecifier(l)
            THEN after[i] = [l EXCEPT !.pkg = PkgCore, !.op = "==",
                                      !.val = DropFirst(p_tag)]
            ELSE after[i] = l

C20_Witness ==
    /\ p_fn = "update_nodetool_core_dependency"
    /\ Len(p_files) >= 1
    /\ \E i, j \in 1..Len(p_first.lines) :
        /\ p_first.lines[i].kind = "name"
        /\ IsPrefix(PkgCore, p_first.lines[i].pkg)
        /\ p_files[1].lines[i] = p_first.lines[i]
        /\ IsCoreSpecifier(p_first.lines[j])
        /\ p_files[1].lines[j] # p_first.lines[j]
    /\ p_rets[1].ret = "True"

\* C26: wait_for_repos returns normally only if its last poll pass classified
\* every repository of the waiting set, and classified it SUCCEEDED.
C26_ReturnsOnlyWhenAllSucceeded ==
    (InWait /\ wpc = "ret") =>
        /\ \A i \in 1..Len(repos_to_wait) : repos_to_wait[i] \in polled
        /\ pass_results = {SUCCEEDED}

\* C28: the version is the tag with only a leading "v" removed: the rest of a
\* tag that starts with "v", the whole tag otherwise.
C28_VersionIsTagWithoutV ==
    (pc # "start" /\ exit_reason # "declined") =>
        version = (IF StartsWithV(version_tag) THEN Tail(version_tag) ELSE version_tag)

\* C25: in version-update mode, whenever the tag at origin points to the
\* version-bump commit, origin/main holds that commit.
C25_TagOnlyAfterMainPushed ==
    (args.update_versions /\ r_tag = "bump") => r_main = "bump"

\* C30: a poll reports the repository complete only when the run started by
\* this invocation's tag push has completed with success.
C30_OnlyThisInvocationsRun ==
    r_result = SUCCEEDED =>
        \E i \in 1..Len(r_runs) :
            /\ r_runs[i].databaseId = RunIdOf(r_inv)
            /\ r_runs[i].status = "completed"
            /\ r_runs[i].conclusion = "success"

\* text occurs in line, as consecutive characters
Contains(line, text) ==
    \E i \in 0..(Len(line) - Len(text)) : SubSeq(line, i + 1, i + Len(text)) = text

\* C21: no printed line contains the full value of a token.
C21_NoTokenInLog ==
    \A line \in a_log : \A token \in TokenValues : ~Contains(line, token)

IsGitHubUrl(url) ==
    url # <<>> /\ Head(url) \in {"https://github.com/", "git@github.com:",
                                 "https://x-access-token:"}

\* C29: when a token is in the environment and origin is a GitHub URL, after
\* setup_git_auth the origin URL embeds the current token.
C29_UrlEmbedsCurrentToken ==
    (a_pc = "done" /\ gh_token(a_env) # <<>> /\ IsGitHubUrl(a_url)
        /\ a_ret # "False: no remote URL") =>
        IsPrefix(AuthPrefix(gh_token(a_env)), a_url)

C22_Listed(r) == ~r.draft /\ ~r.prerelease /\ parse_version(r.tag_name) # <<-1>>

C22_Wanted(name, wheel_filter) ==
    EndsWithWhl(name) /\ (wheel_filter = NoFilter \/ wheel_filter \in Range(name))

\* C22: the page of a package links exactly the .whl assets (those whose name
\* contains the wheel filter, when one is configured) of the releases that are
\* neither draft nor prerelease and whose tag parses as a version, each as
\* often as it occurs, in descending order of release version, and the
\* returned count is the number of links
C22_PageListsWheelsDescending ==
    x_pages[PagePackage].exists =>
        LET page == x_pages[PagePackage].wheels
            rs == x_releases[PagePackage]
            f == x_registry[PagePackage]
        IN
        /\ x_returned[PagePackage] = Len(page)
        /\ \A i \in 1..Len(page) : \A j \in (i + 1)..Len(page) :
                ~VersionLess(page[i].version, page[j].version)
        /\ \A i \in 1..Len(rs) : \A k \in 1..Len(rs[i].assets) :
            LET a == rs[i].assets[k] IN
            Cardinality({n \in 1..Len(page) :
                            page[n].url = a.browser_download_url
                            /\ page[n].filename = a.name})
              = Cardinality({ij \in (1..Len(rs)) \X (1..MaxAssets) :
                                /\ ij[2] <= Len(rs[ij[1]].assets)
                                /\ rs[ij[1]].assets[ij[2]] = a
                                /\ C22_Listed(rs[ij[1]])
                                /\ C22_Wanted(a.name, f)})
        /\ \A n \in 1..Len(page) :
             \E i \in 1..Len(rs) : \E k \in 1..Len(rs[i].assets) :
                /\ rs[i].assets[k].browser_download_url = page[n].url
                /\ rs[i].assets[k].name = page[n].filename
                /\ parse_version(rs[i].tag_name) = page[n].version

\* a filtered page of two links whose releases came in ascending order
C22_Witness ==
    /\ x_pages[PagePackage].exists
    /\ x_registry[PagePackage] # NoFilter
    /\ Len(x_releases[PagePackage]) = 2
    /\ VersionLess(parse_version(x_releases[PagePackage][1].tag_name),
                   parse_version(x_releases[PagePackage][2].tag_name))
    /\ Len(x_pages[PagePackage].wheels) = 2
    /\ x_pages[PagePackage].wheels[1].version
         = parse_version(x_releases[PagePackage][2].tag_name)

\* the build that just ended was restricted to one package of the registry
C23_RestrictedBuildEnded ==
    x_pc = "manifest" /\ x_args.package_filter \in IndexPackages

C27_ManifestCountIsLinkCount ==
    (x_pc = "build" /\ x_builds > 0) =>
        \A p \in IndexPackages :
            x_pages[p].exists =>
                /\ x_manifest[p] = Len(x_pages[p].wheels)
                /\ x_manifest[p] = x_returned[p]

\* owner, "/", repository name
C24_OwnerSlashRepo(repo_id) ==
    /\ Len(repo_id) >= 3
    /\ repo_id[1] # "/"
    /\ repo_id[2] = "/"
    /\ \A i \in 3..Len(repo_id) : repo_id[i] # "/"

\* C24: after any number of runs of poll_external_releases on a registry with
\* unique package names, no two entries have the same name and every repo_id
\* has the form owner/repo
C24_NamesUnique ==
    /\ \A i \in 1..Len(q_registry) : \A j \in 1..Len(q_registry) :
        i # j => q_registry[i].name # q_registry[j].name
    /\ \A i \in 1..Len(q_registry) : C24_OwnerSlashRepo(q_registry[i].repo_id)

====
